---------------------------- MODULE Spec2Model ----------------------------
(***************************************************************************)
(* A model of the cpi library: the data file opened by cpi/data.py, the    *)
(* lookup dictionaries built from it, and the public operations get and    *)
(* inflate of cpi/__init__.py.                                             *)
(***************************************************************************)
EXTENDS Integers, Sequences, FiniteSets, TLC

(***************************************************************************)
(* Bounds of the model.                                                    *)
(***************************************************************************)
\* Years 1..MaxYear may carry data; the callers also pass 0 and MaxYear + 1.
MaxYear == 2
\* Number of significant bits of the binary floating point numbers.
FloatBits == 5

DEFAULT_SERIES == "CUUR0000SA0"
OTHER_SERIES == "CUSR0000SA0"
UNKNOWN_SERIES == "FOOBAR"

(***************************************************************************)
(* Binary floating point.  A float is [m, e], standing for m * 2^e, with   *)
(* m = 0 or 2^(FloatBits-1) <= m < 2^FloatBits.  Every operation rounds    *)
(* its exact result to the nearest float, ties to even.                    *)
(***************************************************************************)
Pow2(n) == 2 ^ n

FZero == [m |-> 0, e |-> 0]

\* The float nearest to (n / d) * 2^e, for integers n >= 0 and d > 0.
RECURSIVE RoundRatio(_, _, _)
RoundRatio(n, d, e) ==
    IF n = 0 THEN FZero
    ELSE IF n \div d >= Pow2(FloatBits) THEN RoundRatio(n, 2 * d, e + 1)
    ELSE IF n \div d < Pow2(FloatBits - 1) THEN RoundRatio(2 * n, d, e - 1)
    ELSE LET q == n \div d
             r == n - q * d
             up == (2 * r > d) \/ (2 * r = d /\ q % 2 = 1)
             q1 == IF up THEN q + 1 ELSE q
         IN IF q1 = Pow2(FloatBits)
               THEN [m |-> Pow2(FloatBits - 1), e |-> e + 1]
               ELSE [m |-> q1, e |-> e]

\* float(i) for a non-negative integer i.
FromInt(i) == RoundRatio(i, 1, 0)

\* a * b
FMul(a, b) == RoundRatio(a.m * b.m, 1, a.e + b.e)

\* a / b, b not zero
FDiv(a, b) == RoundRatio(a.m, b.m, a.e - b.e)


\* floor(a / b) for floats a >= 0 and b > 0, as a float
FFloorDiv(a, b) ==
    IF a.e >= b.e THEN FromInt((a.m * Pow2(a.e - b.e)) \div b.m)
                  ELSE FromInt(a.m \div (b.m * Pow2(b.e - a.e)))

\* Mutant: the source and the target index exchanged.
InflateMathSwapped(value, source_index, target_index) ==
    FDiv(FMul(value, source_index), target_index)

\* Mutant: the division without float(): a floor division.
InflateMathFloorDiv(value, source_index, target_index) ==
    FFloorDiv(FMul(value, target_index), source_index)

\* (value * target_index) / float(source_index)
InflateMath(value, source_index, target_index) ==
    FDiv(FMul(value, target_index), source_index)

(***************************************************************************)
(* Python values that reach get and inflate as time keys.  Every value is  *)
(* a record [kind, y, m, d, h]: kind is the concrete type; y is the        *)
(* integer (or the year of a date); h is the time of day of a datetime, or *)
(* the fractional part (in tenths) of a float.                             *)
(***************************************************************************)
PyInt(kind, v) == [kind |-> kind, y |-> v, m |-> 0, d |-> 0, h |-> 0]
PyFloat(v, tenths) == [kind |-> "float", y |-> v, m |-> 0, d |-> 0, h |-> tenths]
PyDate(y, m, d) == [kind |-> "date", y |-> y, m |-> m, d |-> d, h |-> 0]
PyDateTime(y, m, d, h) == [kind |-> "datetime", y |-> y, m |-> m, d |-> d, h |-> h]
PyStr == [kind |-> "str", y |-> 0, m |-> 0, d |-> 0, h |-> 0]
PyNone == [kind |-> "none", y |-> 0, m |-> 0, d |-> 0, h |-> 0]

IntegralKinds == {"int", "int32", "int64"}
NumberKinds == IntegralKinds \cup {"float"}

\* isinstance(x, numbers.Integral)
IsIntegral(x) == x.kind \in IntegralKinds
\* isinstance(x, datetime)
IsDatetime(x) == x.kind = "datetime"
\* isinstance(x, date): datetime is a subclass of date
IsDate(x) == x.kind \in {"date", "datetime"}
\* type(x)
PyType(x) == x.kind

\* a == b: numbers compare by value across the numeric types; a datetime is
\* never equal to a date that is not a datetime.
PyEq(a, b) ==
    IF a.kind \in NumberKinds /\ b.kind \in NumberKinds
      THEN a.y = b.y /\ a.h = b.h
      ELSE a = b

\* bool(x): None, zero and the empty string are false; dates are true.
Truthy(x) ==
    CASE x.kind = "none" -> FALSE
      [] x.kind \in NumberKinds -> ~(x.y = 0 /\ x.h = 0)
      [] OTHER -> TRUE

\* int(x) for an Integral x
ToInt(x) == PyInt("int", x.y)
\* x.date() for a datetime x
ToDate(x) == PyDate(x.y, x.m, x.d)
\* Mutant: the day is left as it is.
ReplaceDayKept(x) == x

\* x.replace(day=1)
ReplaceDay1(x) == [x EXCEPT !.d = 1]

\* The order of dates (and of years), as an integer.
DateOrd(x) == (x.y * 12 + x.m) * 31 + x.d

(***************************************************************************)
(* Periods (cpi/models.py).                                                *)
(***************************************************************************)
MonthNumber ==
    [M01 |-> 1, M02 |-> 2, M03 |-> 3, M04 |-> 4, M05 |-> 5, M06 |-> 6,
     M07 |-> 7, M08 |-> 8, M09 |-> 9, M10 |-> 10, M11 |-> 11, M12 |-> 12]

Period_month(id) ==
    IF id \in {"M13", "S01", "S03"} THEN 1
    ELSE IF id = "S02" THEN 7
    ELSE MonthNumber[id]

Period_type(id) ==
    IF id \in {"M13", "S03"} THEN "annual"
    ELSE IF id \in {"S01", "S02"} THEN "semiannual"
    ELSE "monthly"

(***************************************************************************)
(* The data file cpi/data.csv: one row per Index, with the columns         *)
(* series, year, period, period_type, date and value.                      *)
(***************************************************************************)
SeriesIds == {DEFAULT_SERIES, OTHER_SERIES}
\* The months of a year that carry monthly data, in order.
DataMonths == <<"M01", "M02">>
NMonths == Len(DataMonths) * MaxYear

PeriodOffset(p) ==
    CASE p = "M13" -> 0 [] p = "M01" -> 1 [] p = "M02" -> 2 [] OTHER -> 3

\* The value published for (series, year, period): every row has its own.
IndexValue(s, y, p) ==
    10 * y + PeriodOffset(p) + (IF s = DEFAULT_SERIES THEN 0 ELSE 5)

Row(s, y, p) ==
    [series |-> s, year |-> y, period |-> p, period_type |-> Period_type(p),
     date |-> PyDate(y, Period_month(p), 1), value |-> IndexValue(s, y, p)]

\* The rows of series s for year y: the months up to the lm-th month of the
\* series, the first half year, and the annual average up to year la.
YearRows(s, y, la, lm) ==
    LET monthly == SelectSeq(
            [i \in 1..Len(DataMonths) |-> Row(s, y, DataMonths[i])],
            LAMBDA r : (y - 1) * Len(DataMonths) + r.date.m <= lm)
        half == <<Row(s, y, "S01")>>
        annual == IF y <= la THEN <<Row(s, y, "M13")>> ELSE <<>>
    IN monthly \o half \o annual

RECURSIVE SeriesRows(_, _, _, _)
SeriesRows(s, y, la, lm) ==
    IF y > MaxYear THEN <<>>
    ELSE YearRows(s, y, la, lm) \o SeriesRows(s, y + 1, la, lm)

\* The data files: the default series has annual and monthly data (the
\* module cannot be imported otherwise); the other series may have none, and
\* may end before or after the default series.
DataFiles ==
    {SeriesRows(DEFAULT_SERIES, 1, lad, lmd) \o SeriesRows(OTHER_SERIES, 1, lao, lmo) :
        lad \in {MaxYear - 1, MaxYear}, lmd \in {NMonths - 1, NMonths},
        lao \in {0, MaxYear - 1, MaxYear}, lmo \in {0, NMonths - 1, NMonths}}

(***************************************************************************)
(* cpi/data.py: the dictionaries series -> key -> value.                   *)
(***************************************************************************)
EmptyDict == [k \in {} |-> FZero]

\* data_dict[series][key] = value, on a defaultdict of dictionaries
DictSet(data_dict, s, key, value) ==
    LET inner == IF s \in DOMAIN data_dict THEN data_dict[s] ELSE EmptyDict
        inner1 == [k \in DOMAIN inner \cup {key} |->
                      IF k = key THEN value ELSE inner[k]]
    IN [x \in DOMAIN data_dict \cup {s} |-> IF x = s THEN inner1 ELSE data_dict[x]]

\* row['period_type'] == 'annual'
IsAnnualRow(row) == row.period_type = "annual"

\* Mutant: every row that is not annual counts as monthly.
IsMonthlyRowNotAnnual(row) == row.period_type # "annual"

\* row['period_type'] == 'monthly'
IsMonthlyRow(row) == row.period_type = "monthly"

RECURSIVE YearDictOf(_, _)
YearDictOf(rows, n) ==
    IF n = 0 THEN [s \in {} |-> EmptyDict]
    ELSE LET d == YearDictOf(rows, n - 1)
             row == rows[n]
         IN IF IsAnnualRow(row)
               THEN DictSet(d, row.series, PyInt("int", row.year), FromInt(row.value))
               ELSE d

get_year_dict(rows) == YearDictOf(rows, Len(rows))

RECURSIVE MonthDictOf(_, _)
MonthDictOf(rows, n) ==
    IF n = 0 THEN [s \in {} |-> EmptyDict]
    ELSE LET d == MonthDictOf(rows, n - 1)
             row == rows[n]
         IN IF IsMonthlyRow(row)
               THEN DictSet(d, row.series, row.date, FromInt(row.value))
               ELSE d

get_month_dict(rows) == MonthDictOf(rows, Len(rows))

\* max(keys)
MaxKey(keys) == CHOOSE k \in keys : \A k2 \in keys : DateOrd(k2) <= DateOrd(k)

(***************************************************************************)
(* The state: the data file, what the import of the package computes from  *)
(* it, and the call in progress.                                           *)
(***************************************************************************)
VARIABLES
    cpi_file,       \* the rows of data.csv
    cpi_by_year,    \* series -> year -> value
    cpi_by_month,   \* series -> first of month -> value
    LATEST_YEAR,    \* the latest year of the default series
    LATEST_MONTH,   \* the latest month of the default series
    today,          \* date.today() when the package is imported
    emitted,        \* the warnings emitted by the import
    db,             \* cpi.db: the tables of the store
    _dict,          \* SeriesList._dict: series id -> the cached Series object
    series_list,    \* the SeriesList itself: the objects appended to it
    heap,           \* the Series objects created so far: reference -> object
    loads,          \* series id -> the loads that SeriesList.get_by_id completed
    res,            \* the last operation on the store and its outcome
    procs,          \* the operations in progress: their positions and local values
    pc,             \* "importing", "import_failed", "idle", "returned", "there" or "back"
    call,           \* the last call and its outcome
    prev            \* the call before it, in a round trip

vars ==
    <<cpi_file, cpi_by_year, cpi_by_month, LATEST_YEAR, LATEST_MONTH, today,
      emitted, db, _dict, series_list, heap, loads, res, procs, pc, call, prev>>

\* The state of the store and of the SeriesList.
Stored == <<db, _dict, series_list, heap, loads, res, procs>>

(***************************************************************************)
(* Series ids and codes are strings that the program slices and            *)
(* concatenates: they are sequences of characters here.                    *)
(***************************************************************************)
Min(a, b) == IF a <= b THEN a ELSE b

\* s[a:b] of Python, for 0 <= a <= b: the bounds are clamped to the length.
Slice(s, a, b) ==
    LET lo == Min(a, Len(s))
        hi == Min(b, Len(s))
    IN [i \in 1..(hi - lo) |-> s[lo + i]]

\* s[a:]
SliceFrom(s, a) == Slice(s, a, Len(s))

\* Mutant: the area code is taken to be three characters long.
parse_idShortArea(id) ==
    [survey_code |-> Slice(id, 0, 2),
     seasonal_code |-> Slice(id, 2, 3),
     periodicity_code |-> Slice(id, 3, 4),
     area_code |-> Slice(id, 4, 7),
     item_code |-> SliceFrom(id, 7)]

\* Mutant: the bounds of the slices are not clamped: a short id has no
\* character at the positions asked for.
parse_idStrict(id) ==
    IF Len(id) < 8 THEN [survey_code |-> <<>>, seasonal_code |-> <<>>,
                         periodicity_code |-> <<>>, area_code |-> <<>>,
                         item_code |-> <<"IndexError">>]
    ELSE [survey_code |-> Slice(id, 0, 2),
          seasonal_code |-> Slice(id, 2, 3),
          periodicity_code |-> Slice(id, 3, 4),
          area_code |-> Slice(id, 4, 8),
          item_code |-> SliceFrom(id, 8)]

\* ParseSeries.parse_id
parse_id(id) ==
    [survey_code |-> Slice(id, 0, 2),
     seasonal_code |-> Slice(id, 2, 3),
     periodicity_code |-> Slice(id, 3, 4),
     area_code |-> Slice(id, 4, 8),
     item_code |-> SliceFrom(id, 8)]

\* ParseSeries.SURVEYS: survey code -> name
ParseSeries_SURVEYS(code) ==
    CASE code = <<"C", "U">> -> "All urban consumers"
      [] code = <<"C", "W">> -> "Urban wage earners and clerical workers"
      [] OTHER -> "KeyError"

\* SeriesList.SURVEYS: survey name -> code
SeriesList_SURVEYS ==
    [n \in {"All urban consumers", "Urban wage earners and clerical workers"} |->
        IF n = "All urban consumers" THEN <<"C", "U">> ELSE <<"C", "W">>]

\* SeriesList.SEASONALITIES: True -> "S", False -> "U"
SEASONALITIES == [True |-> <<"S">>, False |-> <<"U">>]

\* cpi/defaults.py
DEFAULT_SERIES_ID == <<"C", "U", "U", "R", "0", "0", "0", "0", "S", "A", "0">>
DEFAULTS_SERIES_ATTRS ==
    [survey |-> "All urban consumers", seasonally_adjusted |-> "False",
     periodicity |-> "Monthly", area |-> "U.S. city average",
     items |-> "All items"]

(***************************************************************************)
(* The store (cpi.db): the catalogs, the series and their indexes, as the  *)
(* parsers write them (cpi/parsers.py).                                    *)
(***************************************************************************)
CatalogRow(code, name) == [id |-> code, code |-> code, name |-> name]
PeriodRow(p, abbr, name) == [id |-> p, code |-> p, abbreviation |-> abbr, name |-> name]

Periodicities ==
    <<CatalogRow(<<"R">>, "Monthly"), CatalogRow(<<"S">>, "Semi-Annual")>>
Areas ==
    <<CatalogRow(<<"0", "0", "0", "0">>, "U.S. city average"),
      CatalogRow(<<"S", "4", "9", "A">>, "Los Angeles-Long Beach-Anaheim, CA")>>
Items ==
    <<CatalogRow(<<"S", "A", "0">>, "All items"),
      CatalogRow(<<"S", "A", "0", "E">>, "Energy")>>
Periods ==
    <<PeriodRow("M01", "JAN", "January"), PeriodRow("M02", "FEB", "February"),
      PeriodRow("M13", "AN AV", "Annual Average"),
      PeriodRow("S01", "S1", "1st Half")>>

\* ParseSeries.parse: a row of the series table, made of a row of cu.series
\* with its series_id, seasonal, periodicity_code, area_code and item_code.
SeriesRow(id, seasonal, periodicity_code, area_code, item_code) ==
    [id |-> id, title |-> "title",
     survey |-> ParseSeries_SURVEYS(parse_id(id).survey_code),
     seasonally_adjusted |-> IF seasonal = <<"S">> THEN 1 ELSE 0,
     periodicity |-> periodicity_code,
     area |-> area_code,
     items |-> item_code]

\* The seasonally adjusted series of energy prices in Los Angeles.
SEASONAL_SERIES_ID == <<"C", "U", "S", "R", "S", "4", "9", "A", "S", "A", "0", "E">>

SeriesTable ==
    <<SeriesRow(DEFAULT_SERIES_ID, <<"U">>, <<"R">>, <<"0", "0", "0", "0">>,
                <<"S", "A", "0">>),
      SeriesRow(SEASONAL_SERIES_ID, <<"S">>, <<"R">>, <<"S", "4", "9", "A">>,
                <<"S", "A", "0", "E">>)>>

\* ParseIndex.parse: a row of the indexes table.
IndexRow(id, y, p, v) == [series |-> id, year |-> y, period |-> p, value |-> v]

\* The indexes of a series: a month and the annual average of every year;
\* the seasonally adjusted series has no annual averages.
RECURSIVE IndexesOf(_, _, _)
IndexesOf(id, base, y) ==
    IF y > MaxYear THEN <<>>
    ELSE <<IndexRow(id, y, "M01", base + 10 * y + 1)>>
         \o (IF id = SEASONAL_SERIES_ID THEN <<>>
             ELSE <<IndexRow(id, y, "M13", base + 10 * y)>>)
         \o IndexesOf(id, base, y + 1)

IndexesTable ==
    IndexesOf(DEFAULT_SERIES_ID, 0, 1) \o IndexesOf(SEASONAL_SERIES_ID, 3, 1)

TableNames == <<"periodicities", "areas", "items", "periods", "series">>

FullStore ==
    [periodicities |-> Periodicities, areas |-> Areas, items |-> Items,
     periods |-> Periods, series |-> SeriesTable, indexes |-> IndexesTable]

\* A sequence without its k-th element.
Without(seq, k) == [i \in 1..(Len(seq) - 1) |-> IF i < k THEN seq[i] ELSE seq[i + 1]]

\* The stores: the full one, and every store that lacks one row of a catalog
\* or of the series table, so that a code that is referred to is missing.
Stores ==
    {FullStore} \cup
    {[FullStore EXCEPT ![TableNames[t]] = Without(FullStore[TableNames[t]], k)] :
        <<t, k>> \in {tk \in (1..Len(TableNames)) \X (1..Len(Periods)) :
                        tk[2] <= Len(FullStore[TableNames[tk[1]]])}}

\* Outside the sessions that use the store.
NoStore ==
    [periodicities |-> <<>>, areas |-> <<>>, items |-> <<>>, periods |-> <<>>,
     series |-> <<>>, indexes |-> <<>>]

(***************************************************************************)
(* Queries on the store (cpi/models.py).  An outcome is a returned value   *)
(* or a raised exception with its message, and the queries made on the     *)
(* way.                                                                    *)
(***************************************************************************)
NoMsg == [text |-> "", arg |-> ""]
Msg(text, arg) == [text |-> text, arg |-> arg]
NoVal == [id |-> <<>>]

SOk(v, q) == [status |-> "ok", val |-> v, msg |-> NoMsg, queries |-> q]
SRaise(err, msg, q) == [status |-> err, val |-> NoVal, msg |-> msg, queries |-> q]

\* The record of a query: SELECT * FROM table WHERE col = key.
Sql(table, col, key) == [table |-> table, col |-> col, key |-> <<key>>]
\* SELECT * FROM table
SqlAll(table) == [table |-> table, col |-> "", key |-> <<>>]

\* query("SELECT * from table WHERE col=?", (value,))
query(table, col, value) == SelectSeq(db[table], LAMBDA r : r[col] = value)

\* queryone, given the result of its query.
OneOf(dict_list, q) ==
    IF Len(dict_list) = 1 THEN SOk(dict_list[1], q)
    ELSE IF Len(dict_list) = 0
      THEN SRaise("CPIObjectDoesNotExist", Msg("Object does not exist", ""), q)
    ELSE SRaise("ValueError", Msg("More than one object exists", ""), q)

queryone(table, col, value) ==
    OneOf(query(table, col, value), <<Sql(table, col, value)>>)

\* The catalogs and their tables.
Catalogs == {"Area", "Item", "Period", "Periodicity"}
table_name(cls) ==
    CASE cls = "Area" -> "areas" [] cls = "Item" -> "items"
      [] cls = "Period" -> "periods" [] cls = "Periodicity" -> "periodicities"

\* cls(**d): the object made from a row; a Periodicity takes its code as id.
New(cls, d) == IF cls = "Periodicity" THEN [d EXCEPT !.id = d.code] ELSE d

\* queryone, then cls(**d)
Construct(cls, one) ==
    IF one.status = "ok" THEN SOk(New(cls, one.val), one.queries) ELSE one

\* BaseObject.get_by_id
get_by_id(cls, value) == Construct(cls, queryone(table_name(cls), "id", value))

\* BaseObject.get_by_name
get_by_name(cls, value) == Construct(cls, queryone(table_name(cls), "name", value))

\* BaseObject.all
all(cls) == [i \in 1..Len(db[table_name(cls)]) |-> New(cls, db[table_name(cls)][i])]

\* An outcome after the queries q made before it.
After(q, out) == [out EXCEPT !.queries = q \o @]

(***************************************************************************)
(* Series.get_by_id: the row of the series, its periodicity, area and      *)
(* items from their catalogs, and its indexes, each with its period.       *)
(***************************************************************************)
\* period_cache = {p.id: p for p in Period.all()}
period_cache ==
    [id \in {all("Period")[i].id : i \in 1..Len(all("Period"))} |->
        LET n == CHOOSE i \in 1..Len(all("Period")) :
                    /\ all("Period")[i].id = id
                    /\ \A j \in (i + 1)..Len(all("Period")) : all("Period")[j].id # id
        IN all("Period")[n]]

\* Index(series_id, year, period, value)
NewIndex(series_id, i, period) ==
    [series_id |-> series_id, year |-> i.year, period |-> period,
     value |-> FromInt(i.value)]

\* period_cache[i["period"]] with a period that is not in the cache
PeriodMissing(q) == SRaise("KeyError", Msg("KeyError", ""), q)

\* seasonalities = {1: True, 0: False}
seasonalities == <<TRUE>> @@ (0 :> FALSE)

Series_get_by_id(value) ==
    LET d == queryone("series", "id", value)
        periodicity == After(d.queries, get_by_id("Periodicity", d.val.periodicity))
        area == After(periodicity.queries, get_by_id("Area", d.val.area))
        items == After(area.queries, get_by_id("Item", d.val.items))
        dict_list == query("indexes", "series", value)
        q == items.queries \o <<Sql("indexes", "series", value), SqlAll("periods")>>
    IN IF d.status # "ok" THEN d
       ELSE IF d.val.seasonally_adjusted \notin DOMAIN seasonalities
         THEN SRaise("KeyError", Msg("KeyError", ""), d.queries)
       ELSE IF periodicity.status # "ok" THEN periodicity
       ELSE IF area.status # "ok" THEN area
       ELSE IF items.status # "ok" THEN items
       ELSE IF \E n \in 1..Len(dict_list) :
                  dict_list[n].period \notin DOMAIN period_cache
         THEN PeriodMissing(q)
       ELSE SOk([id |-> d.val.id, title |-> d.val.title, survey |-> d.val.survey,
                 seasonally_adjusted |-> seasonalities[d.val.seasonally_adjusted],
                 periodicity |-> periodicity.val, area |-> area.val,
                 items |-> items.val,
                 indexes |-> [n \in 1..Len(dict_list) |->
                                NewIndex(d.val.id, dict_list[n],
                                         period_cache[dict_list[n].period])]],
                q)

(***************************************************************************)
(* SeriesList (cpi/models.py): the list of series with its cache.  Its     *)
(* methods are functions of the state of the list,                         *)
(*   [dict, list, heap, loads],                                            *)
(* that give the state after the call and the outcome of the call.  A      *)
(* Series object is known by its reference, its index in the heap.         *)
(***************************************************************************)
MaxObjects == 3
MaxAppends == 1

EmptyMap == [k \in {} |-> 0]

\* The state of the SeriesList.
ListState == [dict |-> _dict, list |-> series_list, heap |-> heap, loads |-> loads]

Result(st, out) == [st |-> st, out |-> out]

\* A new Series object: its reference is returned.
Created(st, obj, q) ==
    Result([st EXCEPT !.heap = Append(@, obj)], SOk(Len(st.heap) + 1, q))

\* One more completed load of the series id.
Loaded(ld, id) ==
    IF id \in DOMAIN ld THEN [ld EXCEPT ![id] = @ + 1] ELSE (id :> 1) @@ ld

\* Mutant: the cache is not looked at.
SeriesList_get_by_idNoCache(st, value) ==
    LET obj == Series_get_by_id(value)
        made == Created(st, obj.val, obj.queries)
    IN IF obj.status # "ok" THEN Result(st, obj)
       ELSE Result([made.st EXCEPT !.dict = (value :> made.out.val) @@ @,
                                   !.loads = Loaded(@, value)],
                   made.out)

\* Mutant: a load that fails empties the cache.
SeriesList_get_by_idReset(st, value) ==
    LET obj == Series_get_by_id(value)
        made == Created(st, obj.val, obj.queries)
    IN IF value \in DOMAIN st.dict THEN Result(st, SOk(st.dict[value], <<>>))
       ELSE IF obj.status # "ok" THEN Result([st EXCEPT !.dict = EmptyMap], obj)
       ELSE Result([made.st EXCEPT !.dict = (value :> made.out.val) @@ @,
                                   !.loads = Loaded(@, value)],
                   made.out)

\* SeriesList.get_by_id
SeriesList_get_by_id(st, value) ==
    LET obj == Series_get_by_id(value)
        made == Created(st, obj.val, obj.queries)
    IN IF value \in DOMAIN st.dict THEN Result(st, SOk(st.dict[value], <<>>))
       ELSE IF obj.status # "ok" THEN Result(st, obj)
       ELSE Result([made.st EXCEPT !.dict = (value :> made.out.val) @@ @,
                                   !.loads = Loaded(@, value)],
                   made.out)

\* SeriesList.all: get_by_id for every id of the series table, in order.
RECURSIVE AllFrom(_, _, _, _)
AllFrom(st, series, refs, q) ==
    IF series = <<>> THEN Result(st, SOk(refs, q))
    ELSE LET r == SeriesList_get_by_id(st, Head(series).id)
         IN IF r.out.status # "ok" THEN Result(r.st, After(q, r.out))
            ELSE AllFrom(r.st, Tail(series), Append(refs, r.out.val),
                         q \o r.out.queries)

SeriesList_all(st) == AllFrom(st, db.series, <<>>, <<SqlAll("series")>>)

\* SeriesList.append
SeriesList_append(st, ref) ==
    Result([st EXCEPT !.dict = (st.heap[ref].id :> ref) @@ @,
                      !.list = Append(@, ref)],
           SOk(ref, <<>>))

\* The series id that SeriesList.get makes of the attributes.
series_id_of(attrs) ==
    LET periodicity == get_by_name("Periodicity", attrs.periodicity)
        area == After(periodicity.queries, get_by_name("Area", attrs.area))
        items == After(area.queries, get_by_name("Item", attrs.items))
    IN IF attrs.survey \notin DOMAIN SeriesList_SURVEYS
         THEN SRaise("CPIObjectDoesNotExist",
                     Msg("Survey with the name {} does not exist", attrs.survey), <<>>)
       ELSE IF attrs.seasonally_adjusted \notin DOMAIN SEASONALITIES
         THEN SRaise("CPIObjectDoesNotExist",
                     Msg("Seasonality {} does not exist", attrs.seasonally_adjusted), <<>>)
       ELSE IF periodicity.status # "ok" THEN periodicity
       ELSE IF area.status # "ok" THEN area
       ELSE IF items.status # "ok" THEN items
       ELSE SOk(SeriesList_SURVEYS[attrs.survey]
                    \o SEASONALITIES[attrs.seasonally_adjusted]
                    \o periodicity.val.code \o area.val.code \o items.val.code,
                items.queries)

\* SeriesList.get
SeriesList_get(st, attrs) ==
    LET series_id == series_id_of(attrs)
        obj == After(series_id.queries, Series_get_by_id(series_id.val))
    IN IF series_id.status # "ok" THEN Result(st, series_id)
       ELSE IF obj.status # "ok" THEN Result(st, obj)
       ELSE Created(st, obj.val, obj.queries)

\* The last operation on the store: what was called, with what, and the
\* outcome; for parse_id the five codes, for SeriesList.get the series id,
\* for get_index_by_date the date and the period type.
NoCodes == parse_id(<<>>)
NoRes ==
    [op |-> "none", cls |-> "", id |-> <<>>, name |-> "", ref |-> 0,
     attrs |-> DEFAULTS_SERIES_ATTRS, codes |-> NoCodes, series_id |-> <<>>,
     date |-> PyNone, period_type |-> "",
     out |-> SRaise("none", NoMsg, <<>>)]

\* No operation is in progress.
NoProcs == EmptyMap

\* A SeriesList that was never used.
NoSeriesList ==
    /\ _dict = EmptyMap
    /\ series_list = <<>>
    /\ heap = <<>>
    /\ loads = EmptyMap
    /\ res = NoRes

(***************************************************************************)
(* Outcomes: a returned value or a raised exception, with the dictionary   *)
(* lookups made on the way.                                                *)
(***************************************************************************)
Ok(v, lk) == [status |-> "ok", val |-> v, lookups |-> lk]
Raise(err, lk) == [status |-> err, val |-> FZero, lookups |-> lk]
Lookup(dict, s, k) == [dict |-> dict, series |-> s, key |-> k]

\* key in d, by hash and equality
HasKey(d, key) == \E k \in DOMAIN d : PyEq(k, key)
\* d[key]
GetItem(d, key) == d[CHOOSE k \in DOMAIN d : PyEq(k, key)]

\* Mutant: data_dict[series] outside any try block: a KeyError escapes.
PullValueNoSeriesTry(name, data_dict, key, series) ==
    IF series \notin DOMAIN data_dict
      THEN Raise("KeyError", <<Lookup(name, series, PyNone)>>)
    ELSE IF ~HasKey(data_dict[series], key)
      THEN Raise("CPIDoesNotExist",
                 <<Lookup(name, series, PyNone), Lookup(name, series, key)>>)
    ELSE Ok(GetItem(data_dict[series], key),
            <<Lookup(name, series, PyNone), Lookup(name, series, key)>>)

\* The two try blocks of get: data_dict[series], then series_dict[key].
PullValue(name, data_dict, key, series) ==
    IF series \notin DOMAIN data_dict
      THEN Raise("CPIDoesNotExist", <<Lookup(name, series, PyNone)>>)
    ELSE IF ~HasKey(data_dict[series], key)
      THEN Raise("CPIDoesNotExist",
                 <<Lookup(name, series, PyNone), Lookup(name, series, key)>>)
    ELSE Ok(GetItem(data_dict[series], key),
            <<Lookup(name, series, PyNone), Lookup(name, series, key)>>)

\* Mutant: the series is pulled before the type of the key is looked at.
getSeriesFirst(year_or_month, series) ==
    IF series \notin DOMAIN cpi_by_year \cup DOMAIN cpi_by_month
      THEN Raise("CPIDoesNotExist", <<Lookup("cpi_by_year", series, PyNone)>>)
    ELSE IF IsIntegral(year_or_month)
      THEN PullValue("cpi_by_year", cpi_by_year, year_or_month, series)
    ELSE IF IsDate(year_or_month)
      THEN PullValue("cpi_by_month", cpi_by_month,
                     IF year_or_month.d # 1 THEN ReplaceDay1(year_or_month)
                                            ELSE year_or_month,
                     series)
    ELSE Raise("ValueError", <<>>)

\* cpi.get(year_or_month, series)
get(year_or_month, series) ==
    IF IsIntegral(year_or_month)
      THEN PullValue("cpi_by_year", cpi_by_year, year_or_month, series)
    ELSE IF IsDate(year_or_month)
      THEN PullValue("cpi_by_month", cpi_by_month,
                     IF year_or_month.d # 1 THEN ReplaceDay1(year_or_month)
                                            ELSE year_or_month,
                     series)
    ELSE Raise("ValueError", <<>>)

\* Mutant: the two dates are compared only when they are of one type.
SameDatesOfOneType(year_or_month, to) ==
    PyType(year_or_month) = PyType(to) /\ PyEq(year_or_month, to)

\* The short cut of inflate: the two dates match.
SameDates(year_or_month, to) == PyEq(year_or_month, to)

\* Whether inflate has to figure out the 'to' date itself.
ToNotProvided(to) == ~Truthy(to)

\* Mutant: a 'to' that was provided is not sanitized.
TargetOfUnsanitized(year_or_month, to) ==
    IF ToNotProvided(to)
      THEN IF IsDate(year_or_month) THEN LATEST_MONTH ELSE LATEST_YEAR
    ELSE to

\* The 'to' date inflate works with.
TargetOf(year_or_month, to) ==
    IF ToNotProvided(to)
      THEN IF IsDate(year_or_month) THEN LATEST_MONTH ELSE LATEST_YEAR
    ELSE IF IsIntegral(to) THEN ToInt(to)
    ELSE IF IsDatetime(to) THEN ToDate(to)
    ELSE to

\* The sanitized year_or_month.
SourceOf(year_or_month) ==
    IF IsIntegral(year_or_month) THEN ToInt(year_or_month)
    ELSE IF IsDatetime(year_or_month) THEN ToDate(year_or_month)
    ELSE year_or_month

\* cpi.inflate(value, year_or_month, to, series); to = None when omitted
inflate(value, year_or_month, to, series) ==
    IF SameDates(year_or_month, to) THEN Ok(value, <<>>)
    ELSE LET target == TargetOf(year_or_month, to)
             source == SourceOf(year_or_month)
         IN IF PyType(source) # PyType(target) THEN Raise("TypeError", <<>>)
            ELSE LET source_index == get(source, series)
                     target_index == get(target, series)
                 IN IF source_index.status # "ok" THEN source_index
                    ELSE IF target_index.status # "ok"
                      THEN Raise(target_index.status,
                                 source_index.lookups \o target_index.lookups)
                    ELSE Ok(InflateMath(value, source_index.val, target_index.val),
                            source_index.lookups \o target_index.lookups)

(***************************************************************************)
(* The arguments the callers pass.                                         *)
(***************************************************************************)
Days == {1, 15}
MonthsOfYear == {Period_month(DataMonths[i]) : i \in 1..Len(DataMonths)}

IntKeys ==
    {PyInt("int", v) : v \in 0..(MaxYear + 1)}
        \cup {PyInt("int64", v) : v \in 0..MaxYear} \cup {PyInt("int32", 1)}
DateKeys == {PyDate(y, m, d) : y \in 1..MaxYear, m \in MonthsOfYear, d \in Days}
DateTimeKeys ==
    {PyDateTime(y, m, 1, 0) : y \in 1..MaxYear, m \in MonthsOfYear}
        \cup {PyDateTime(1, 1, 15, 0), PyDateTime(1, 1, 1, 12)}
OtherKeys == {PyFloat(1, 0), PyFloat(1, 5), PyStr, PyNone}
TimeKeys == IntKeys \cup DateKeys \cup DateTimeKeys \cup OtherKeys

SeriesArgs == SeriesIds \cup {UNKNOWN_SERIES}
Values == {FromInt(1), FromInt(3)}

NoOutcome == Raise("none", <<>>)
NoCall ==
    [op |-> "none", value |-> FZero, key |-> PyNone, to |-> PyNone,
     series |-> "", out |-> NoOutcome]

(***************************************************************************)
(* The import of the package (cpi/__init__.py): how out of date the data   *)
(* is on the day of the import.  Dates are subtracted as datetime does it, *)
(* by their proleptic Gregorian ordinals.                                  *)
(***************************************************************************)
IsLeap(y) == (y % 4 = 0 /\ y % 100 # 0) \/ y % 400 = 0

DaysInMonth(y, m) ==
    IF m = 2 THEN (IF IsLeap(y) THEN 29 ELSE 28)
    ELSE IF m \in {4, 6, 9, 11} THEN 30 ELSE 31

DaysBeforeYear(y) ==
    LET p == y - 1 IN 365 * p + (p \div 4) - (p \div 100) + (p \div 400)

RECURSIVE DaysBeforeMonth(_, _)
DaysBeforeMonth(y, m) ==
    IF m <= 1 THEN 0 ELSE DaysBeforeMonth(y, m - 1) + DaysInMonth(y, m - 1)

\* date.toordinal()
ToOrdinal(x) == DaysBeforeYear(x.y) + DaysBeforeMonth(x.y, x.m) + x.d

\* (a - b).days
DaysBetween(a, b) == ToOrdinal(a) - ToOrdinal(b)

DAYS_SINCE_LATEST_MONTH(day, latest_month) == DaysBetween(day, latest_month)
DAYS_SINCE_LATEST_YEAR(day, latest_year) ==
    DaysBetween(day, PyDate(latest_year.y, 1, 1))

\* DAYS_SINCE_LATEST_YEAR > (365*2.25) or DAYS_SINCE_LATEST_MONTH > 90
IsStale(day, latest_year, latest_month) ==
    \/ 4 * DAYS_SINCE_LATEST_YEAR(day, latest_year) > 365 * 9
    \/ DAYS_SINCE_LATEST_MONTH(day, latest_month) > 90

\* logging.Logger.addHandler returns nothing.
addHandler(handler) == PyNone

\* logger = logging.getLogger(__name__).addHandler(logging.NullHandler())
logger == addHandler("NullHandler")

\* logger.warn(...): None has no attribute warn.
LoggerWarn(l) == IF l = PyNone THEN "AttributeError" ELSE "ok"

\* The latest year and month of the default series in a data file.
LatestYearOf(file) == MaxKey(DOMAIN get_year_dict(file)[DEFAULT_SERIES])
LatestMonthOf(file) == MaxKey(DOMAIN get_month_dict(file)[DEFAULT_SERIES])

\* The days on which the package is imported.
ImportDays ==
    {PyDate(y, m, 15) : y \in MaxYear..(MaxYear + 2), m \in {2, 3, 6, 12}}

(***************************************************************************)
(* Init: the package has been imported, on the day of its latest month:    *)
(* cpi/data.py has read the file and built the dictionaries,               *)
(* cpi/__init__.py has established the range of the data.                  *)
(***************************************************************************)
Init ==
    /\ cpi_file \in DataFiles
    /\ cpi_by_year = get_year_dict(cpi_file)
    /\ cpi_by_month = get_month_dict(cpi_file)
    /\ LATEST_YEAR = LatestYearOf(cpi_file)
    /\ LATEST_MONTH = LatestMonthOf(cpi_file)
    /\ today = LatestMonthOf(cpi_file)
    /\ emitted = <<>>
    /\ db = NoStore
    /\ NoSeriesList
    /\ procs = NoProcs
    /\ pc = "idle"
    /\ call = NoCall
    /\ prev = NoCall

Imported ==
    <<cpi_file, cpi_by_year, cpi_by_month, LATEST_YEAR, LATEST_MONTH, today,
      emitted>>

\* A caller calls cpi.get.
Get ==
    /\ pc = "idle"
    /\ \E k \in TimeKeys, s \in SeriesArgs :
          call' = [op |-> "get", value |-> FZero, key |-> k, to |-> PyNone,
                   series |-> s, out |-> get(k, s)]
    /\ pc' = "returned"
    /\ UNCHANGED <<Imported, Stored, prev>>

\* A caller calls cpi.inflate.
Inflate ==
    /\ pc = "idle"
    /\ \E v \in Values, k \in TimeKeys, to \in TimeKeys, s \in SeriesArgs :
          call' = [op |-> "inflate", value |-> v, key |-> k, to |-> to,
                   series |-> s, out |-> inflate(v, k, to, s)]
    /\ pc' = "returned"
    /\ UNCHANGED <<Imported, Stored, prev>>

\* The caller is done with the result.
Return ==
    /\ pc \in {"returned", "back"}
    /\ pc' = "idle"
    /\ call' = NoCall
    /\ prev' = NoCall
    /\ res' = NoRes
    /\ UNCHANGED <<Imported, db, _dict, series_list, heap, loads, procs>>

Next == Get \/ Inflate \/ Return

Spec == Init /\ [][Next]_vars

(***************************************************************************)
(* Start-up: the package is imported on some day, with some data file, and *)
(* then used.  The import runs cpi/data.py and then the module body of     *)
(* cpi/__init__.py; an exception of the module body ends the import.       *)
(***************************************************************************)
InitStartup ==
    /\ cpi_file \in DataFiles
    /\ today \in ImportDays
    /\ cpi_by_year = EmptyDict
    /\ cpi_by_month = EmptyDict
    /\ LATEST_YEAR = PyNone
    /\ LATEST_MONTH = PyNone
    /\ emitted = <<>>
    /\ db = NoStore
    /\ NoSeriesList
    /\ procs = NoProcs
    /\ pc = "importing"
    /\ call = NoCall
    /\ prev = NoCall

Import ==
    /\ pc = "importing"
    /\ cpi_by_year' = get_year_dict(cpi_file)
    /\ cpi_by_month' = get_month_dict(cpi_file)
    /\ LATEST_YEAR' = LatestYearOf(cpi_file)
    /\ LATEST_MONTH' = LatestMonthOf(cpi_file)
    /\ IF IsStale(today, LatestYearOf(cpi_file), LatestMonthOf(cpi_file))
         THEN /\ emitted' = Append(emitted, "StaleDataWarning")
              /\ pc' = IF LoggerWarn(logger) = "ok" THEN "idle" ELSE "import_failed"
         ELSE /\ emitted' = emitted
              /\ pc' = "idle"
    /\ UNCHANGED <<cpi_file, today, Stored, call, prev>>

NextStartup == Import \/ Get \/ Return

SpecStartup == InitStartup /\ [][NextStartup]_vars

(***************************************************************************)
(* Round trips: a caller inflates a value from one time to another and     *)
(* passes the result to inflate again, with the two times exchanged.      *)
(***************************************************************************)
RoundTripKeys == {k \in IntKeys \cup DateKeys : Truthy(k)}

InflateThere ==
    /\ pc = "idle"
    /\ \E v \in Values, k \in RoundTripKeys, to \in RoundTripKeys, s \in SeriesArgs :
          call' = [op |-> "inflate", value |-> v, key |-> k, to |-> to,
                   series |-> s, out |-> inflate(v, k, to, s)]
    /\ pc' = "there"
    /\ UNCHANGED <<Imported, Stored, prev>>

InflateBack ==
    /\ pc = "there"
    /\ call.out.status = "ok"
    /\ prev' = call
    /\ call' = [op |-> "inflate", value |-> call.out.val, key |-> call.to,
                to |-> call.key, series |-> call.series,
                out |-> inflate(call.out.val, call.to, call.key, call.series)]
    /\ pc' = "back"
    /\ UNCHANGED <<Imported, Stored>>

GiveUp ==
    /\ pc = "there"
    /\ call.out.status # "ok"
    /\ pc' = "idle"
    /\ call' = NoCall
    /\ UNCHANGED <<Imported, Stored, prev>>

NextRoundTrip == InflateThere \/ InflateBack \/ GiveUp \/ Return

SpecRoundTrip == Init /\ [][NextRoundTrip]_vars

(***************************************************************************)
(* Sessions on the store: the arguments that callers pass, and one action  *)
(* for every operation.                                                    *)
(***************************************************************************)
UNKNOWN_SERIES_ID == <<"F", "O", "O", "B", "A", "R">>
SeriesIdArgs == {DEFAULT_SERIES_ID, SEASONAL_SERIES_ID, UNKNOWN_SERIES_ID}

\* The strings given to parse_id: the ids and all their prefixes.
IdStrings ==
    {Slice(id, 0, n) : <<id, n>> \in {x \in SeriesIdArgs \X (0..Len(SEASONAL_SERIES_ID)) :
                                        x[2] <= Len(x[1])}}

SurveyArgs == DOMAIN SeriesList_SURVEYS \cup {"Nobody"}
SeasonalityArgs == DOMAIN SEASONALITIES \cup {"None"}
NamesOf(table) == {table[i].name : i \in 1..Len(table)}
IdsOf(table) == {table[i].id : i \in 1..Len(table)}
NameArgs(cls) == NamesOf(FullStore[table_name(cls)]) \cup {"Atlantis"}
IdArgs(cls) ==
    IdsOf(FullStore[table_name(cls)])
        \cup (IF cls = "Period" THEN {"M14"} ELSE {<<"X">>})

\* The attributes of the seasonally adjusted series of the store.
SEASONAL_SERIES_ATTRS ==
    [survey |-> "All urban consumers", seasonally_adjusted |-> "True",
     periodicity |-> "Monthly", area |-> "Los Angeles-Long Beach-Anaheim, CA",
     items |-> "Energy"]

AttrNames == {"survey", "seasonally_adjusted", "periodicity", "area", "items"}
Differences(a, b) == Cardinality({f \in AttrNames : a[f] # b[f]})

\* The attributes given to SeriesList.get: the defaults with up to two
\* attributes changed, the seasonal series with up to one.
AttrArgs ==
    {a \in [survey : SurveyArgs, seasonally_adjusted : SeasonalityArgs,
            periodicity : NameArgs("Periodicity"), area : NameArgs("Area"),
            items : NameArgs("Item")] :
        \/ Differences(a, DEFAULTS_SERIES_ATTRS) <= 2
        \/ Differences(a, SEASONAL_SERIES_ATTRS) <= 1}

InitStore ==
    /\ cpi_file = <<>>
    /\ cpi_by_year = EmptyDict
    /\ cpi_by_month = EmptyDict
    /\ LATEST_YEAR = PyNone
    /\ LATEST_MONTH = PyNone
    /\ today = PyNone
    /\ emitted = <<>>
    /\ db \in Stores
    /\ NoSeriesList
    /\ procs = NoProcs
    /\ pc = "idle"
    /\ call = NoCall
    /\ prev = NoCall

\* The state of the SeriesList after a call.
Apply(r) ==
    /\ _dict' = r.st.dict
    /\ series_list' = r.st.list
    /\ heap' = r.st.heap
    /\ loads' = r.st.loads

Called == pc' = "returned" /\ UNCHANGED <<Imported, db, procs, call, prev>>

\* ParseSeries().parse_id(id)
ParseId ==
    /\ pc = "idle"
    /\ \E id \in IdStrings :
          res' = [NoRes EXCEPT !.op = "parse_id", !.id = id, !.codes = parse_id(id)]
    /\ Called
    /\ UNCHANGED <<_dict, series_list, heap, loads>>

\* Area, Item, Period or Periodicity .get_by_id(value) and .get_by_name(value)
CatalogGetById ==
    /\ pc = "idle"
    /\ \E cls \in Catalogs : \E value \in IdArgs(cls) :
          res' = [NoRes EXCEPT !.op = "get_by_id", !.cls = cls, !.id = <<value>>,
                               !.out = get_by_id(cls, value)]
    /\ Called
    /\ UNCHANGED <<_dict, series_list, heap, loads>>

CatalogGetByName ==
    /\ pc = "idle"
    /\ \E cls \in Catalogs : \E value \in NameArgs(cls) :
          res' = [NoRes EXCEPT !.op = "get_by_name", !.cls = cls, !.name = value,
                               !.out = get_by_name(cls, value)]
    /\ Called
    /\ UNCHANGED <<_dict, series_list, heap, loads>>

\* queryone("SELECT * FROM table")
QueryOneOfTable ==
    /\ pc = "idle"
    /\ \E t \in 1..Len(TableNames) :
          res' = [NoRes EXCEPT !.op = "queryone", !.cls = TableNames[t],
                               !.out = OneOf(db[TableNames[t]], <<SqlAll(TableNames[t])>>)]
    /\ Called
    /\ UNCHANGED <<_dict, series_list, heap, loads>>

\* Series.get_by_id(value)
SeriesGetById ==
    /\ pc = "idle"
    /\ Len(heap) < MaxObjects
    /\ \E value \in SeriesIdArgs :
          LET obj == Series_get_by_id(value)
              r == IF obj.status = "ok" THEN Created(ListState, obj.val, obj.queries)
                   ELSE Result(ListState, obj)
          IN /\ Apply(r)
             /\ res' = [NoRes EXCEPT !.op = "Series.get_by_id", !.id = value,
                                     !.out = r.out]
    /\ Called

\* SeriesList.get_by_id(value)
SLGetById ==
    /\ pc = "idle"
    /\ Len(heap) < MaxObjects
    /\ \E value \in SeriesIdArgs :
          LET r == SeriesList_get_by_id(ListState, value)
          IN /\ Apply(r)
             /\ res' = [NoRes EXCEPT !.op = "SeriesList.get_by_id", !.id = value,
                                     !.out = r.out]
    /\ Called

\* SeriesList.all()
SLAll ==
    /\ pc = "idle"
    /\ Len(heap) + Len(db.series) <= MaxObjects
    /\ LET r == SeriesList_all(ListState)
       IN /\ Apply(r)
          /\ res' = [NoRes EXCEPT !.op = "SeriesList.all", !.out = r.out]
    /\ Called

\* SeriesList.get(survey, seasonally_adjusted, periodicity, area, items)
SLGet ==
    /\ pc = "idle"
    /\ Len(heap) < MaxObjects
    /\ \E attrs \in AttrArgs :
          LET r == SeriesList_get(ListState, attrs)
              series_id == series_id_of(attrs)
          IN /\ Apply(r)
             /\ res' = [NoRes EXCEPT
                            !.op = "SeriesList.get", !.attrs = attrs,
                            !.series_id = IF series_id.status = "ok"
                                            THEN series_id.val ELSE <<>>,
                            !.out = r.out]
    /\ Called

\* SeriesList.append(obj), with a Series object that exists
SLAppend ==
    /\ pc = "idle"
    /\ Len(series_list) < MaxAppends
    /\ \E ref \in 1..Len(heap) :
          LET r == SeriesList_append(ListState, ref)
          IN /\ Apply(r)
             /\ res' = [NoRes EXCEPT !.op = "SeriesList.append", !.ref = ref,
                                     !.out = r.out]
    /\ Called

\* The catalogs and the codec: nothing is cached.
NextCatalog ==
    \/ ParseId \/ CatalogGetById \/ CatalogGetByName \/ QueryOneOfTable
    \/ SeriesGetById \/ SLGet \/ Return

SpecCatalog == InitStore /\ [][NextCatalog]_vars

\* The SeriesList as a loader: get_by_id and all.
NextLoader == SLGetById \/ SLAll \/ Return

SpecLoader == InitStore /\ [][NextLoader]_vars

\* The SeriesList with all its operations.
NextSeriesList == SLGetById \/ SLAll \/ SLGet \/ SLAppend \/ SeriesGetById \/ Return

SpecSeriesList == InitStore /\ [][NextSeriesList]_vars

(***************************************************************************)
(* What the data file says, read off its rows: the rows that are the Index *)
(* of a series at a time key (a year, or the month of a date).             *)
(***************************************************************************)
IndexRows(s, k) ==
    {i \in 1..Len(cpi_file) :
        /\ cpi_file[i].series = s
        /\ \/ /\ IsIntegral(k)
              /\ cpi_file[i].period_type = "annual"
              /\ cpi_file[i].year = k.y
           \/ /\ IsDate(k)
              /\ cpi_file[i].period_type = "monthly"
              /\ cpi_file[i].date.y = k.y
              /\ cpi_file[i].date.m = k.m}

HasIndexAt(s, k) == IndexRows(s, k) # {}

IndexAt(s, k) == FromInt(cpi_file[CHOOSE i \in IndexRows(s, k) : TRUE].value)

SameOutcome(o1, o2) == o1.status = o2.status /\ o1.val = o2.val

\* C1: inflate returns the value unchanged, without any lookup and without
\* an error, whenever time_key == to holds of the arguments as passed.
C1_EqualEndpointsReturnValue ==
    (call.op = "inflate" /\ PyEq(call.key, call.to))
        => call.out = Ok(call.value, <<>>)

\* C1 witness: equal endpoints that have no Index, on a series that does
\* not exist.
C1_Witness ==
    /\ call.op = "inflate"
    /\ call.series = UNKNOWN_SERIES
    /\ call.key = PyInt("int64", 0)
    /\ call.to = PyInt("int", 0)
    /\ call.out.status = "ok"

\* C2: for two different time keys of the same class (two years, or two
\* dates) that both have an Index in the series, inflate returns
\* value * Index(to) / Index(time_key), whichever of the two is later.
C2_InflateIsRatio ==
    (/\ call.op = "inflate"
     /\ ~PyEq(call.key, call.to)
     /\ \/ IsIntegral(call.key) /\ IsIntegral(call.to)
        \/ IsDate(call.key) /\ IsDate(call.to)
     /\ HasIndexAt(call.series, call.key)
     /\ HasIndexAt(call.series, call.to))
        => /\ call.out.status = "ok"
           /\ call.out.val =
                 FDiv(FMul(call.value, IndexAt(call.series, call.to)),
                      IndexAt(call.series, call.key))

\* C2 witness: a deflation: the target year is earlier than the source year.
C2_Witness ==
    /\ call.op = "inflate"
    /\ call.series = OTHER_SERIES
    /\ call.key = PyInt("int", MaxYear)
    /\ call.to = PyInt("int", 1)
    /\ call.out.status = "ok"
    /\ call.out.val # call.value

\* The granularity class of a time key: a year or a month.
GranularityClass(k) ==
    IF IsIntegral(k) THEN "year" ELSE IF IsDate(k) THEN "month" ELSE "invalid"

\* C3: inflate raises TypeError, and returns no value, whenever time_key and
\* to are of different granularity classes: one an integer year and the
\* other a date, in either order.
C3_MismatchRaisesTypeError ==
    (/\ call.op = "inflate"
     /\ {GranularityClass(call.key), GranularityClass(call.to)} = {"year", "month"})
        => call.out.status = "TypeError"

\* The latest year (for a year key) or month (for a date key) of a series,
\* over its rows of annual (monthly) period type.
SeriesLatest(s, k) ==
    LET rows == {i \in 1..Len(cpi_file) :
                    /\ cpi_file[i].series = s
                    /\ cpi_file[i].period_type =
                          (IF IsIntegral(k) THEN "annual" ELSE "monthly")}
        keys == {IF IsIntegral(k) THEN PyInt("int", cpi_file[i].year)
                                  ELSE cpi_file[i].date : i \in rows}
    IN MaxKey(keys)

\* C4: without `to`, inflate adjusts to the latest year (a year key) or the
\* latest month (a date key) of the series the call selects.
C4_DefaultTargetIsLatestOfSeries ==
    (/\ call.op = "inflate"
     /\ call.to = PyNone
     /\ IsIntegral(call.key) \/ IsDate(call.key)
     /\ HasIndexAt(call.series, call.key))
        => /\ call.out.status = "ok"
           /\ call.out.val =
                 InflateMath(call.value, IndexAt(call.series, call.key),
                             IndexAt(call.series, SeriesLatest(call.series, call.key)))

\* C5: get with an integer or a date returns the value of the Index of the
\* series at that key when the series has one, and raises CPIDoesNotExist
\* otherwise (unknown series, or no Index at that key).
C5_GetValueOrNotFound ==
    (call.op = "get" /\ (IsIntegral(call.key) \/ call.key.kind = "date"))
        => IF HasIndexAt(call.series, call.key)
             THEN call.out.status = "ok"
                  /\ call.out.val = IndexAt(call.series, call.key)
             ELSE call.out.status = "CPIDoesNotExist"
                  /\ call.out.val = FZero

\* C5 witness: a known series that has no Index at the key.
C5_Witness ==
    /\ call.op = "get"
    /\ call.series = DEFAULT_SERIES
    /\ call.key = PyInt("int", MaxYear + 1)
    /\ call.out.status = "CPIDoesNotExist"
    /\ Len(call.out.lookups) = 2

\* C6: get with a key that is neither an integer nor a date raises
\* ValueError before any lookup, also when the series does not exist.
C6_InvalidKeyBeforeLookup ==
    (call.op = "get" /\ ~IsIntegral(call.key) /\ ~IsDate(call.key))
        => call.out = Raise("ValueError", <<>>)

\* C6 witness: a float key on a series that does not exist.
C6_Witness ==
    /\ call.op = "get"
    /\ call.key = PyFloat(1, 5)
    /\ call.series = UNKNOWN_SERIES
    /\ call.out.status = "ValueError"

\* The date k on day d of its month.
OnDay(k, d) == IF k.kind = "date" THEN [k EXCEPT !.d = d] ELSE k

\* C7: the day of a date key does not matter: every date that get or inflate
\* looks up is the first of its month; get has the same outcome for every
\* day of the month of its key, and so has inflate, for time_key and for to,
\* whenever it gets to the lookups (the two arguments are not equal).
C7_DayOfMonthIrrelevant ==
    /\ \A i \in 1..Len(call.out.lookups) :
          call.out.lookups[i].key.kind = "date" => call.out.lookups[i].key.d = 1
    /\ (call.op = "get" /\ call.key.kind = "date")
          => \A d \in Days : get(OnDay(call.key, d), call.series) = call.out
    /\ (/\ call.op = "inflate"
        /\ call.key.kind = "date"
        /\ call.to.kind \in {"date", "none"}
        /\ ~PyEq(call.key, call.to))
          => \A d1, d2 \in Days :
                ~PyEq(OnDay(call.key, d1), OnDay(call.to, d2))
                   => inflate(call.value, OnDay(call.key, d1),
                              OnDay(call.to, d2), call.series) = call.out

\* C7 witness: a date that is not the first of its month resolves the Index
\* of the month.
C7_Witness ==
    /\ call.op = "get"
    /\ call.key = PyDate(1, 2, 15)
    /\ call.series = OTHER_SERIES
    /\ call.out.status = "ok"
    /\ call.out.val = FromInt(IndexValue(OTHER_SERIES, 1, "M02"))

\* The rows of a series whose value is v.
RowsWithValue(s, v) ==
    {i \in 1..Len(cpi_file) :
        cpi_file[i].series = s /\ FromInt(cpi_file[i].value) = v}

\* C8: the kind of the key alone selects the period type: what get returns
\* for an integer is the value of an annual row of that year, what it
\* returns for a date is the value of a monthly row of that month, and it
\* is the value of no other row of the series.
C8_PeriodTypeFromKeyKind ==
    (call.op = "get" /\ call.out.status = "ok")
        => /\ RowsWithValue(call.series, call.out.val) # {}
           /\ \A i \in RowsWithValue(call.series, call.out.val) :
                 /\ cpi_file[i].period_type # "semiannual"
                 /\ IsIntegral(call.key)
                       => cpi_file[i].period_type = "annual"
                          /\ cpi_file[i].year = call.key.y
                 /\ ~IsIntegral(call.key)
                       => cpi_file[i].period_type = "monthly"
                          /\ cpi_file[i].date = ReplaceDay1(call.key)

\* C8 witness: the series holds a semiannual, a monthly and an annual row
\* for January of the year, and get answers a date with the monthly one.
C8_Witness ==
    /\ call.op = "get"
    /\ call.key = PyDate(1, 1, 1)
    /\ call.out.status = "ok"
    /\ \E i, j \in 1..Len(cpi_file) :
          /\ cpi_file[i].series = call.series
          /\ cpi_file[j].series = call.series
          /\ cpi_file[i].date = call.key
          /\ cpi_file[j].date = call.key
          /\ cpi_file[i].period_type = "semiannual"
          /\ cpi_file[j].period_type = "annual"

\* |a - b| <= n * 2^(-FloatBits) * b: a is b within n roundings.
Within(a, b, n) ==
    LET emin == IF a.e < b.e THEN a.e ELSE b.e
        x == a.m * Pow2(a.e - emin)
        y == b.m * Pow2(b.e - emin)
        diff == IF x < y THEN y - x ELSE x - y
    IN diff * Pow2(FloatBits) <= n * y

\* C9: deflating inverts inflating: for two time keys Y and Z at which the
\* series has an Index, inflate(inflate(v, Y, to=Z), Z, to=Y) succeeds and is
\* v within the tolerance of the four roundings of the two multiplications
\* and two divisions (and v itself when Y == Z).
C9_RoundTrip ==
    (/\ pc = "back"
     /\ HasIndexAt(prev.series, prev.key)
     /\ HasIndexAt(prev.series, prev.to))
        => /\ call.out.status = "ok"
           /\ Within(call.out.val, prev.value, 5)
           /\ PyEq(prev.key, prev.to) => call.out.val = prev.value

\* C9 witness: a round trip between two different years that comes back to
\* the value it started from.
C9_Witness ==
    /\ pc = "back"
    /\ prev.key = PyInt("int", 1)
    /\ prev.to = PyInt("int", MaxYear)
    /\ prev.out.val # prev.value
    /\ call.out.status = "ok"
    /\ call.out.val = prev.value

\* The same time key as a plain int (for an Integral) or as a date (for a
\* datetime at midnight of the first of a month).
IsMidnightFirst(k) == k.kind = "datetime" /\ k.d = 1 /\ k.h = 0
AsPlain(k) ==
    IF IsIntegral(k) THEN PyInt("int", k.y)
    ELSE IF IsMidnightFirst(k) THEN PyDate(k.y, k.m, k.d)
    ELSE k

FirstOfMonth(k) == PyDate(k.y, k.m, 1)

\* A key finer than a first-of-month date: a datetime with a time of day, or
\* one that is not on the first of its month.
IsFinerThanMonth(k) == IsDatetime(k) /\ (k.h # 0 \/ k.d # 1)

\* C18: a time key finer than a first-of-month date is truncated before the
\* lookup: get with a datetime that carries a time of day (or a day of the
\* month) has the outcome of get with the first day of that month.
C18_DateTimeTruncated ==
    (call.op = "get" /\ IsFinerThanMonth(call.key))
        => SameOutcome(call.out, get(FirstOfMonth(call.key), call.series))

\* A time key that is neither an integer nor date-like.
IsInvalidKey(k) == ~IsIntegral(k) /\ ~IsDate(k)

\* C19: inflate with a time_key that is neither an integer nor date-like,
\* and that differs from `to`, raises ValueError whatever `to` is (omitted,
\* an integer, a date, invalid): never TypeError, never CPIDoesNotExist, and
\* it returns no value.
C19_InvalidKeyRaisesValueError ==
    (call.op = "inflate" /\ IsInvalidKey(call.key) /\ ~PyEq(call.key, call.to))
        => call.out.status = "ValueError"

(***************************************************************************)
(* Start-up with data that is out of date.                                 *)
(***************************************************************************)
\* C17: the stale-data signal never aborts: when the import finds the data
\* out of date (latest year more than 365 * 2.25 days old, or latest month
\* more than 90 days old), it emits a StaleDataWarning and completes, so
\* that get and inflate can be called.
C17_StaleImportCompletes ==
    (pc # "importing" /\ IsStale(today, LATEST_YEAR, LATEST_MONTH))
        => /\ emitted = <<"StaleDataWarning">>
           /\ pc \in {"idle", "returned"}

(***************************************************************************)
(* The codec of series ids.                                                *)
(***************************************************************************)
\* The five segments of parsed codes, one after the other.
Joined(c) ==
    c.survey_code \o c.seasonal_code \o c.periodicity_code \o c.area_code
        \o c.item_code

\* C13: parse_id splits an id by fixed offsets only (characters 0-1, 2, 3,
\* 4-7, 8 and on): for every string, also one that is no series id or is
\* too short, it returns five segments of exactly these lengths (empty ones
\* where the string ends before), and the segments, one after the other,
\* are the string.
C13_DecodeSplitsByOffsets ==
    res.op = "parse_id"
        => LET n == Len(res.id)
               c == res.codes
           IN /\ Joined(c) = res.id
              /\ Len(c.survey_code) = Min(n, 2)
              /\ Len(c.seasonal_code) = Min(n, 3) - Min(n, 2)
              /\ Len(c.periodicity_code) = Min(n, 4) - Min(n, 3)
              /\ Len(c.area_code) = Min(n, 8) - Min(n, 4)
              /\ Len(c.item_code) = n - Min(n, 8)

\* C13 witness: an id of three characters has no periodicity, area or item.
C13_Witness ==
    /\ res.op = "parse_id"
    /\ res.id = <<"C", "U", "U">>
    /\ res.codes.survey_code = <<"C", "U">>
    /\ res.codes.seasonal_code = <<"U">>
    /\ res.codes.periodicity_code = <<>>
    /\ res.codes.area_code = <<>>
    /\ res.codes.item_code = <<>>

\* The attributes that the codes of an id stand for: the survey and the
\* seasonality by the tables of the program, the periodicity, area and item
\* by the catalogs.
SeasonalityOf(code) == CHOOSE k \in DOMAIN SEASONALITIES : SEASONALITIES[k] = code

Rehydrated(c) ==
    [survey |-> ParseSeries_SURVEYS(c.survey_code),
     seasonally_adjusted |-> SeasonalityOf(c.seasonal_code),
     periodicity |-> get_by_id("Periodicity", c.periodicity_code).val.name,
     area |-> get_by_id("Area", c.area_code).val.name,
     items |-> get_by_id("Item", c.item_code).val.name]

CanRehydrate(c) ==
    /\ ParseSeries_SURVEYS(c.survey_code) # "KeyError"
    /\ \E k \in DOMAIN SEASONALITIES : SEASONALITIES[k] = c.seasonal_code
    /\ get_by_id("Periodicity", c.periodicity_code).status = "ok"
    /\ get_by_id("Area", c.area_code).status = "ok"
    /\ get_by_id("Item", c.item_code).status = "ok"

\* The codes of attributes that are all in the catalogs.
InCatalogs(a) ==
    /\ a.survey \in DOMAIN SeriesList_SURVEYS
    /\ a.seasonally_adjusted \in DOMAIN SEASONALITIES
    /\ a.periodicity \in NamesOf(db.periodicities)
    /\ a.area \in NamesOf(db.areas)
    /\ a.items \in NamesOf(db.items)

CodesOf(a) ==
    [survey_code |-> SeriesList_SURVEYS[a.survey],
     seasonal_code |-> SEASONALITIES[a.seasonally_adjusted],
     periodicity_code |-> get_by_name("Periodicity", a.periodicity).val.code,
     area_code |-> get_by_name("Area", a.area).val.code,
     item_code |-> get_by_name("Item", a.items).val.code]

AllAttrs ==
    [survey : SurveyArgs, seasonally_adjusted : SeasonalityArgs,
     periodicity : NameArgs("Periodicity"), area : NameArgs("Area"),
     items : NameArgs("Item")]

\* C11: the codec round trip.  For every id of the series table whose codes
\* are in the catalogs, the id that SeriesList.get makes of the attributes
\* its codes stand for is the id; for all attributes that are in the
\* catalogs, parse_id of the id that SeriesList.get makes of them gives
\* their codes back; and so it is for the id of every call of
\* SeriesList.get that got as far as the id.
C11_CodecRoundTrip ==
    /\ \A i \in 1..Len(db.series) :
          CanRehydrate(parse_id(db.series[i].id))
             => LET encoded == series_id_of(Rehydrated(parse_id(db.series[i].id)))
                IN encoded.status = "ok" /\ encoded.val = db.series[i].id
    /\ \A a \in AllAttrs :
          InCatalogs(a)
             => /\ series_id_of(a).status = "ok"
                /\ parse_id(series_id_of(a).val) = CodesOf(a)
    /\ (res.op = "SeriesList.get" /\ res.series_id # <<>>)
          => parse_id(res.series_id) = CodesOf(res.attrs)

\* C11 witness: SeriesList.get has made the id of the seasonally adjusted
\* series of its attributes, and the id decodes to their codes.
C11_Witness ==
    /\ res.op = "SeriesList.get"
    /\ res.attrs = SEASONAL_SERIES_ATTRS
    /\ res.out.status = "ok"
    /\ res.series_id = SEASONAL_SERIES_ID
    /\ parse_id(res.series_id).area_code = <<"S", "4", "9", "A">>
    /\ parse_id(res.series_id).item_code = <<"S", "A", "0", "E">>
    /\ Rehydrated(parse_id(res.series_id)) = res.attrs

(***************************************************************************)
(* What an error tells: the messages of the program and what they name.    *)
(***************************************************************************)
\* The attribute or catalog that the text of a message names, if any.
Subject(text) ==
    CASE text = "Survey with the name {} does not exist" -> "survey"
      [] text = "Seasonality {} does not exist" -> "seasonally_adjusted"
      [] OTHER -> ""

\* The attributes that are not recognized.
Unrecognized(a) ==
    {f \in AttrNames :
        \/ f = "survey" /\ a.survey \notin DOMAIN SeriesList_SURVEYS
        \/ f = "seasonally_adjusted" /\ a.seasonally_adjusted \notin DOMAIN SEASONALITIES
        \/ f = "periodicity" /\ a.periodicity \notin NamesOf(db.periodicities)
        \/ f = "area" /\ a.area \notin NamesOf(db.areas)
        \/ f = "items" /\ a.items \notin NamesOf(db.items)}

\* The tables that an outcome has queried.
Queried(out) == {out.queries[i].table : i \in 1..Len(out.queries)}

\* C12: SeriesList.get with an attribute that is not recognized (survey,
\* seasonality, periodicity, area or item) raises CPIObjectDoesNotExist, the
\* message names an attribute that is not recognized and the value given for
\* it, and no series is loaded: the series and indexes tables are not
\* queried.
C12_UnrecognizedAttributeNamed ==
    (res.op = "SeriesList.get" /\ Unrecognized(res.attrs) # {})
        => /\ res.out.status = "CPIObjectDoesNotExist"
           /\ Subject(res.out.msg.text) \in Unrecognized(res.attrs)
           /\ res.out.msg.arg = res.attrs[Subject(res.out.msg.text)]
           /\ Queried(res.out) \cap {"series", "indexes"} = {}

\* The part of C12 that holds of the code: the error is
\* CPIObjectDoesNotExist and no series is loaded.
UnrecognizedAttributeNotFound ==
    (res.op = "SeriesList.get" /\ Unrecognized(res.attrs) # {})
        => /\ res.out.status = "CPIObjectDoesNotExist"
           /\ Queried(res.out) \cap {"series", "indexes"} = {}

\* The rows of a catalog that match a key.
Matching(op, cls, key) ==
    query(table_name(cls), IF op = "get_by_id" THEN "id" ELSE "name", key)

\* The key of a catalog lookup.
KeyOf(r) == IF r.op = "get_by_id" THEN r.id[1] ELSE r.name

\* C14: a catalog lookup by id or by name, on Area, Item, Period or
\* Periodicity, returns the single record that matches, or raises
\* CPIObjectDoesNotExist with a message that names the catalog and the key;
\* it never fails with a generic or ambiguous error.
C14_LookupOneOrNotFoundNamed ==
    res.op \in {"get_by_id", "get_by_name"}
        => \/ /\ res.out.status = "ok"
              /\ Matching(res.op, res.cls, KeyOf(res)) = <<res.out.val>>
           \/ /\ res.out.status = "CPIObjectDoesNotExist"
              /\ Subject(res.out.msg.text) = res.cls
              /\ res.out.msg.arg # ""

\* The part of C14 that holds of the code, with catalogs whose ids and names
\* are unique: the single record or CPIObjectDoesNotExist.
LookupOneOrNotFound ==
    res.op \in {"get_by_id", "get_by_name"}
        => \/ /\ res.out.status = "ok"
              /\ Matching(res.op, res.cls, KeyOf(res)) = <<res.out.val>>
           \/ /\ res.out.status = "CPIObjectDoesNotExist"
              /\ Matching(res.op, res.cls, KeyOf(res)) = <<>>

(***************************************************************************)
(* The cache of the SeriesList.                                            *)
(***************************************************************************)
\* A step that is a call of SeriesList.get_by_id.
IsGetById == pc = "idle" /\ res'.op = "SeriesList.get_by_id"

\* Every entry of the cache is, after the step, the very object it was, and
\* the object is as it was.
EntriesKept ==
    \A id \in DOMAIN _dict :
        /\ id \in DOMAIN _dict'
        /\ _dict'[id] = _dict[id]
        /\ heap'[_dict[id]] = heap[_dict[id]]

\* C15: the SeriesList loads a series at most once.  Over every sequence of
\* get_by_id (and all) calls on a store that does not change: no id has more
\* than one completed load; a get_by_id that loads the series caches the
\* object it returns; a get_by_id of a cached id returns the cached object
\* without any query and changes nothing; and no entry of the cache ever
\* changes, so that every later call returns the object of the first.
C15_LoadedAtMostOnce ==
    /\ [](\A id \in DOMAIN loads : loads[id] <= 1)
    /\ [][(IsGetById /\ res'.id \in DOMAIN _dict)
             => /\ res'.out = SOk(_dict[res'.id], <<>>)
                /\ UNCHANGED <<_dict, heap, loads>>]_vars
    /\ [][(IsGetById /\ res'.id \notin DOMAIN _dict /\ res'.out.status = "ok")
             => /\ "series" \in Queried(res'.out)
                /\ res'.id \in DOMAIN _dict'
                /\ _dict'[res'.id] = res'.out.val
                /\ loads'[res'.id] = 1]_vars
    /\ [][EntriesKept]_vars

\* C15 witness: get_by_id has returned the cached object of a series that
\* was loaded once, without a query.
C15_Witness ==
    /\ res.op = "SeriesList.get_by_id"
    /\ res.id = DEFAULT_SERIES_ID
    /\ DEFAULT_SERIES_ID \in DOMAIN _dict
    /\ res.out = SOk(_dict[DEFAULT_SERIES_ID], <<>>)
    /\ loads[DEFAULT_SERIES_ID] = 1
    /\ heap[_dict[DEFAULT_SERIES_ID]].id = DEFAULT_SERIES_ID

\* C16: the cache only grows: over every sequence of SeriesList operations
\* (get_by_id, get, all, append) every id of the cache stays mapped to the
\* very same Series object, which stays as it is: no entry is evicted,
\* replaced or mutated.
C16_CacheOnlyGrows ==
    [][\A id \in DOMAIN _dict :
          /\ id \in DOMAIN _dict'
          /\ _dict'[id] = _dict[id]
          /\ heap'[_dict'[id]] = heap[_dict[id]]]_vars

(***************************************************************************)
(* Loading a series whose references are not all in the store.             *)
(***************************************************************************)
\* The rows of the series table and of the indexes table for an id.
MetadataRows(id) == query("series", "id", id)
IndexRowsOf(id) == query("indexes", "series", id)

\* The id has no metadata row.
NoMetadata(id) == MetadataRows(id) = <<>>

\* A code of the metadata row of the id is not in its catalog.
MissingCatalogCode(id) ==
    /\ ~NoMetadata(id)
    /\ \/ MetadataRows(id)[1].periodicity \notin IdsOf(db.periodicities)
       \/ MetadataRows(id)[1].area \notin IdsOf(db.areas)
       \/ MetadataRows(id)[1].items \notin IdsOf(db.items)

\* The period of an index row of the id is not in the period table.
MissingPeriodCode(id) ==
    /\ ~NoMetadata(id)
    /\ \E n \in 1..Len(IndexRowsOf(id)) :
          IndexRowsOf(id)[n].period \notin IdsOf(db.periods)

\* C20: Series.get_by_id raises CPIObjectDoesNotExist, and no other kind of
\* error, whenever the id has no metadata row or a code the series refers to
\* is not in its catalog: the periodicity, area or item code of the metadata
\* row, or the period code of one of its index rows.
C20_MissingReferenceNotFound ==
    (/\ res.op = "Series.get_by_id"
     /\ \/ NoMetadata(res.id)
        \/ MissingCatalogCode(res.id)
        \/ MissingPeriodCode(res.id))
        => res.out.status = "CPIObjectDoesNotExist"

\* The part of C20 that holds of the code: a missing metadata row and a
\* missing periodicity, area or item.
MissingRowOrCatalogCodeNotFound ==
    (/\ res.op = "Series.get_by_id"
     /\ NoMetadata(res.id) \/ MissingCatalogCode(res.id))
        => res.out.status = "CPIObjectDoesNotExist"

(***************************************************************************)
(* The target of inflate when `to` is given.                               *)
(***************************************************************************)
\* `to` as inflate sanitizes it: an int for an Integral, a date for a
\* datetime.
Sanitized(to) ==
    IF IsIntegral(to) THEN ToInt(to)
    ELSE IF IsDatetime(to) THEN ToDate(to)
    ELSE to

\* What inflate does from the comparison of the types on, with a given
\* target.
InflateTo(value, year_or_month, target, series) ==
    LET source == SourceOf(year_or_month)
        source_index == get(source, series)
        target_index == get(target, series)
    IN IF PyType(source) # PyType(target) THEN Raise("TypeError", <<>>)
       ELSE IF source_index.status # "ok" THEN source_index
       ELSE IF target_index.status # "ok"
         THEN Raise(target_index.status,
                    source_index.lookups \o target_index.lookups)
       ELSE Ok(InflateMath(value, source_index.val, target_index.val),
               source_index.lookups \o target_index.lookups)

\* C28: inflate takes the latest year or month as target only when `to` was
\* omitted: with every `to` that was given and is not equal to time_key,
\* also the integer 0 and other values that test as false, the target is the
\* `to` that was given (so that it is `to` that is not found, or of another
\* type), never the latest period.
C28_GivenTargetIsUsed ==
    (call.op = "inflate" /\ call.to # PyNone /\ ~PyEq(call.key, call.to))
        => call.out = InflateTo(call.value, call.key, Sanitized(call.to), call.series)

\* The part of C28 that holds of the code: a `to` that tests as true is the
\* target.
TruthyTargetIsUsed ==
    (call.op = "inflate" /\ Truthy(call.to) /\ ~PyEq(call.key, call.to))
        => call.out = InflateTo(call.value, call.key, Sanitized(call.to), call.series)

(***************************************************************************)
(* SeriesList.get and the cache.                                           *)
(***************************************************************************)
\* C21: a series that SeriesList.get made of its attributes is in the cache
\* as one asked for by its id is: after a SeriesList.get that succeeded the
\* series id is in the cache and the Series returned is the cached one (so
\* that a second get, or a get_by_id of the id, loads nothing again).
C21_GetGoesThroughCache ==
    (res.op = "SeriesList.get" /\ res.out.status = "ok")
        => /\ res.series_id \in DOMAIN _dict
           /\ _dict[res.series_id] = res.out.val

\* What the code does: SeriesList.get loads the series from the store, on
\* every call, and leaves the cache as it is.
GetAlwaysLoads ==
    [][(pc = "idle" /\ res'.op = "SeriesList.get" /\ res'.out.status = "ok")
          => /\ "series" \in Queried(res'.out)
             /\ UNCHANGED <<_dict, loads>>
             /\ res'.out.val = Len(heap) + 1]_vars

(***************************************************************************)
(* The properties and the lookup of a Series object (cpi/models.py), and   *)
(* the stores whose indexes table is what ParseIndex makes of the rows of  *)
(* the data files (cpi/parsers.py).                                        *)
(***************************************************************************)
\* Index.date
Index_date(i) == PyDate(i.year, Period_month(i.period.id), 1)

\* The Indexes of a series of a period type, as positions in self.indexes.
OfType(self, period_type) ==
    {n \in 1..Len(self.indexes) : Period_type(self.indexes[n].period.id) = period_type}

\* max([]) raises ValueError
MaxOfEmpty == SRaise("ValueError", Msg("max() arg is an empty sequence", ""), <<>>)

\* Mutant: the latest date of all the Indexes.
Series_latest_monthOfAll(self) ==
    LET dates == {Index_date(self.indexes[n]) : n \in 1..Len(self.indexes)}
    IN IF dates = {} THEN MaxOfEmpty
       ELSE SOk(CHOOSE d \in dates : \A e \in dates : DateOrd(e) <= DateOrd(d), <<>>)

\* Series.latest_month
Series_latest_month(self) ==
    LET dates == {Index_date(self.indexes[n]) : n \in OfType(self, "monthly")}
    IN IF dates = {} THEN MaxOfEmpty
       ELSE SOk(CHOOSE d \in dates : \A e \in dates : DateOrd(e) <= DateOrd(d), <<>>)

\* Series.latest_year
Series_latest_year(self) ==
    LET years == {self.indexes[n].year : n \in OfType(self, "annual")}
    IN IF years = {} THEN MaxOfEmpty
       ELSE SOk(CHOOSE y \in years : \A z \in years : z <= y, <<>>)

\* Mutant: the last Index of the type and date.
Series_get_index_by_dateLast(self, date, period_type) ==
    LET found == {n \in OfType(self, period_type) :
                    PyEq(Index_date(self.indexes[n]), date)}
    IN IF found = {}
         THEN SRaise("CPIObjectDoesNotExist",
                     Msg("Index of {} type for {} does not exist",
                         <<period_type, date>>), <<>>)
       ELSE SOk(self.indexes[CHOOSE n \in found : \A k \in found : n >= k], <<>>)

\* Series.get_index_by_date
Series_get_index_by_date(self, date, period_type) ==
    LET found == {n \in OfType(self, period_type) :
                    PyEq(Index_date(self.indexes[n]), date)}
    IN IF found = {}
         THEN SRaise("CPIObjectDoesNotExist",
                     Msg("Index of {} type for {} does not exist",
                         <<period_type, date>>), <<>>)
       ELSE SOk(self.indexes[CHOOSE n \in found : \A k \in found : n <= k], <<>>)

\* The periods table with the annual period of the semiannual surveys.
PeriodsWithS03 == Periods \o <<PeriodRow("S03", "AN AV", "Annual Average")>>

\* The rows of the data files (cu.data.*) for the default series.
IndexYears == {1, 2}
IndexValues == {1, 2}
DataRow(id, y, p, v) == [series_id |-> id, year |-> y, period |-> p, value |-> v]
DataRows ==
    {DataRow(DEFAULT_SERIES_ID, y, p, v) :
        <<y, p, v>> \in IndexYears \X IdsOf(PeriodsWithS03) \X IndexValues}

\* ParseIndex.parse
ParseIndex_parse(rows) ==
    [n \in 1..Len(rows) |->
        IndexRow(rows[n].series_id, rows[n].year, rows[n].period, rows[n].value)]

\* DataFrame.drop_duplicates: of the rows that are equal in every column the
\* first is kept.
RECURSIVE drop_duplicates(_)
drop_duplicates(rows) ==
    IF rows = <<>> THEN <<>>
    ELSE LET n == Len(rows)
             front == drop_duplicates(SubSeq(rows, 1, n - 1))
         IN IF \E k \in 1..(n - 1) : rows[k] = rows[n] THEN front
            ELSE Append(front, rows[n])

\* Mutant: of the rows that are equal in series, year and period the first
\* is kept.
drop_duplicatesOfPeriod(rows) ==
    SelectSeq([n \in 1..Len(rows) |->
                  IF \E k \in 1..(n - 1) : /\ rows[k].series = rows[n].series
                                           /\ rows[k].year = rows[n].year
                                           /\ rows[k].period = rows[n].period
                    THEN [rows[n] EXCEPT !.period = ""] ELSE rows[n]],
              LAMBDA r : r.period # "")

\* BaseParser.get_df of ParseIndex
ParseIndex_get_df(rows) == drop_duplicates(ParseIndex_parse(rows))

\* The stores whose indexes are made of two rows of the data files for the
\* default series (one row, when the two are equal), before the indexes of
\* the seasonally adjusted series.
IndexStores ==
    {[FullStore EXCEPT
        !.periods = PeriodsWithS03,
        !.indexes = ParseIndex_get_df(<<a, b>>) \o IndexesOf(SEASONAL_SERIES_ID, 3, 1)] :
            <<a, b>> \in DataRows \X DataRows}

InitSeries ==
    /\ cpi_file = <<>>
    /\ cpi_by_year = EmptyDict
    /\ cpi_by_month = EmptyDict
    /\ LATEST_YEAR = PyNone
    /\ LATEST_MONTH = PyNone
    /\ today = PyNone
    /\ emitted = <<>>
    /\ db \in IndexStores
    /\ NoSeriesList
    /\ procs = NoProcs
    /\ pc = "idle"
    /\ call = NoCall
    /\ prev = NoCall

\* The dates and the period types given to get_index_by_date.
IndexDates == {PyDate(y, m, 1) : <<y, m>> \in IndexYears \X {1, 2}}
PeriodTypes == {"annual", "monthly", "semiannual"}

\* series.latest_month, of a Series object that exists
SeriesLatestMonth ==
    /\ pc = "idle"
    /\ \E ref \in 1..Len(heap) :
          res' = [NoRes EXCEPT !.op = "Series.latest_month", !.ref = ref,
                               !.out = Series_latest_month(heap[ref])]
    /\ UNCHANGED <<_dict, series_list, heap, loads>>
    /\ Called

\* series.latest_year
SeriesLatestYear ==
    /\ pc = "idle"
    /\ \E ref \in 1..Len(heap) :
          res' = [NoRes EXCEPT !.op = "Series.latest_year", !.ref = ref,
                               !.out = Series_latest_year(heap[ref])]
    /\ UNCHANGED <<_dict, series_list, heap, loads>>
    /\ Called

\* series.get_index_by_date(date, period_type)
SeriesGetIndexByDate ==
    /\ pc = "idle"
    /\ \E ref \in 1..Len(heap), date \in IndexDates, period_type \in PeriodTypes :
          res' = [NoRes EXCEPT
                     !.op = "Series.get_index_by_date", !.ref = ref,
                     !.date = date, !.period_type = period_type,
                     !.out = Series_get_index_by_date(heap[ref], date, period_type)]
    /\ UNCHANGED <<_dict, series_list, heap, loads>>
    /\ Called

\* Series objects and their properties.
NextSeries ==
    SeriesGetById \/ SeriesLatestMonth \/ SeriesLatestYear \/ SeriesGetIndexByDate
        \/ Return

SpecSeries == InitSeries /\ [][NextSeries]_vars

(***************************************************************************)
(* The Indexes of a Series.                                                *)
(***************************************************************************)
\* C22: in every Series that Series.get_by_id made, whatever the indexes
\* table holds, no two Indexes have the same year and period: the pair
\* (year, period) is that of at most one Index of the series, also when the
\* store has several rows of the series, year and period that differ in
\* their value.
C22_OneIndexPerYearAndPeriod ==
    \A ref \in 1..Len(heap) :
        \A n, k \in 1..Len(heap[ref].indexes) :
            (/\ heap[ref].indexes[n].year = heap[ref].indexes[k].year
             /\ heap[ref].indexes[n].period.id = heap[ref].indexes[k].period.id)
                => n = k

\* What the code gives: a Series has one Index for every row of its id in
\* the indexes table, in the order of the table, and no two Indexes are
\* equal in year, period and value.
OneIndexPerRow ==
    \A ref \in 1..Len(heap) :
        LET rows == query("indexes", "series", heap[ref].id)
            indexes == heap[ref].indexes
        IN /\ Len(indexes) = Len(rows)
           /\ \A n \in 1..Len(rows) :
                 /\ indexes[n].year = rows[n].year
                 /\ indexes[n].period.id = rows[n].period
                 /\ indexes[n].value = FromInt(rows[n].value)
           /\ \A n, k \in 1..Len(indexes) : indexes[n] = indexes[k] => n = k

(***************************************************************************)
(* The latest month and the latest year of a Series, read off the rows of  *)
(* the indexes table.                                                      *)
(***************************************************************************)
AnnualPeriods == {"M13", "S03"}
SemiannualPeriods == {"S01", "S02"}

\* The rows of the series of a Series object.
RowsOf(ref) == query("indexes", "series", heap[ref].id)

\* The first days of the months of the monthly rows of the series, and the
\* years of its annual rows.
MonthsOf(ref) ==
    {PyDate(RowsOf(ref)[n].year, MonthNumber[RowsOf(ref)[n].period], 1) :
        n \in {k \in 1..Len(RowsOf(ref)) :
                 RowsOf(ref)[k].period \notin AnnualPeriods \cup SemiannualPeriods}}
YearsOf(ref) ==
    {RowsOf(ref)[n].year :
        n \in {k \in 1..Len(RowsOf(ref)) : RowsOf(ref)[k].period \in AnnualPeriods}}

\* C23: latest_month is the maximum of the dates of exactly the monthly
\* Indexes of the Series and latest_year the maximum of the years of exactly
\* its annual Indexes (Indexes of the other types count for neither); a
\* Series with no Index of the type gets the error of an empty sequence
\* instead of a value.
C23_LatestOverTypeOnly ==
    /\ res.op = "Series.latest_month" =>
          IF MonthsOf(res.ref) = {} THEN res.out = MaxOfEmpty
          ELSE /\ res.out.status = "ok"
               /\ res.out.val \in MonthsOf(res.ref)
               /\ \A d \in MonthsOf(res.ref) : DateOrd(d) <= DateOrd(res.out.val)
    /\ res.op = "Series.latest_year" =>
          IF YearsOf(res.ref) = {} THEN res.out = MaxOfEmpty
          ELSE /\ res.out.status = "ok"
               /\ res.out.val \in YearsOf(res.ref)
               /\ \A y \in YearsOf(res.ref) : y <= res.out.val

\* C23 witness: latest_month has returned the month of the monthly Index of a
\* Series that has an annual Index of a later date.
C23_Witness ==
    /\ res.op = "Series.latest_month"
    /\ res.out.status = "ok"
    /\ \E n \in 1..Len(RowsOf(res.ref)) :
          /\ RowsOf(res.ref)[n].period \in AnnualPeriods
          /\ RowsOf(res.ref)[n].year > res.out.val.y

\* latest_year has raised for a Series without an annual Index.
LatestYearOfNoneRaises ==
    /\ res.op = "Series.latest_year"
    /\ res.out = MaxOfEmpty
    /\ heap[res.ref].indexes # <<>>

(***************************************************************************)
(* The lookup of an Index by its date.                                     *)
(***************************************************************************)
\* The period type and the date of a row of the indexes table.
TypeOfRow(r) ==
    IF r.period \in AnnualPeriods THEN "annual"
    ELSE IF r.period \in SemiannualPeriods THEN "semiannual"
    ELSE "monthly"
DateOfRow(r) ==
    PyDate(r.year,
           IF r.period \in AnnualPeriods \cup {"S01"} THEN 1
           ELSE IF r.period = "S02" THEN 7
           ELSE MonthNumber[r.period],
           1)

\* The rows of the series of the period type and the date, as positions in
\* the order of the store.
RowsAt(ref, date, period_type) ==
    {n \in 1..Len(RowsOf(ref)) :
        /\ TypeOfRow(RowsOf(ref)[n]) = period_type
        /\ DateOfRow(RowsOf(ref)[n]) = date}

\* C27: get_index_by_date(d, period_type) returns the first Index, in the
\* order in which the store gave the rows, of the period type and the date d
\* (and raises CPIObjectDoesNotExist when there is none): the annual periods
\* M13 and S03 are both of month 1, so that a series with both for a year
\* answers an annual lookup with the one stored first, and the S01 Index is
\* never the answer of a monthly lookup for January.
C27_FirstIndexOfTypeAndDate ==
    res.op = "Series.get_index_by_date" =>
        LET at == RowsAt(res.ref, res.date, res.period_type)
            first == CHOOSE n \in at : \A k \in at : n <= k
        IN IF at = {} THEN res.out.status = "CPIObjectDoesNotExist"
           ELSE /\ res.out.status = "ok"
                /\ res.out.val.year = RowsOf(res.ref)[first].year
                /\ res.out.val.period.id = RowsOf(res.ref)[first].period
                /\ res.out.val.value = FromInt(RowsOf(res.ref)[first].value)
                /\ Period_type(res.out.val.period.id) = res.period_type
                /\ (res.period_type = "monthly" => res.out.val.period.id # "S01")

\* C27 witness: an annual lookup has returned the S03 Index of a series that
\* has the S03 row and, after it, the M13 row of the year.
C27_Witness ==
    /\ res.op = "Series.get_index_by_date"
    /\ res.period_type = "annual"
    /\ res.out.status = "ok"
    /\ res.out.val.period.id = "S03"
    /\ \E n, k \in 1..Len(RowsOf(res.ref)) :
          /\ n < k
          /\ RowsOf(res.ref)[n].period = "S03"
          /\ RowsOf(res.ref)[k].period = "M13"
          /\ RowsOf(res.ref)[n].year = RowsOf(res.ref)[k].year

\* A monthly lookup for January has raised for a series whose only Index of
\* that January is the S01 one.
MonthlyLookupSkipsS01 ==
    /\ res.op = "Series.get_index_by_date"
    /\ res.period_type = "monthly"
    /\ res.out.status = "CPIObjectDoesNotExist"
    /\ \E n \in 1..Len(RowsOf(res.ref)) :
          /\ RowsOf(res.ref)[n].period = "S01"
          /\ DateOfRow(RowsOf(res.ref)[n]) = res.date

(***************************************************************************)
(* Loads that fail.                                                        *)
(***************************************************************************)
\* A step that is a call of SeriesList.get_by_id or SeriesList.get that
\* raises.
IsFailedLoad ==
    /\ pc = "idle"
    /\ res'.op \in {"SeriesList.get_by_id", "SeriesList.get"}
    /\ res'.out.status # "ok"

\* C26: a load that fails leaves the cache as it was: when
\* SeriesList.get_by_id or SeriesList.get raises (unknown series id, missing
\* catalog code, unrecognized attribute) the cache holds exactly the entries
\* it held before the call and no Series object was made, and the id of a
\* failed get_by_id is not in the cache, so that a later call for it queries
\* the store again.
C26_FailedLoadKeepsCache ==
    [][IsFailedLoad
          => /\ UNCHANGED <<_dict, series_list, heap, loads>>
             /\ (res'.op = "SeriesList.get_by_id"
                    => /\ res'.id \notin DOMAIN _dict'
                       /\ "series" \in Queried(res'.out))]_vars

\* C26 witness: get_by_id has raised while the cache holds a Series, and the
\* id that failed is not in the cache.
C26_Witness ==
    /\ res.op = "SeriesList.get_by_id"
    /\ res.out.status = "CPIObjectDoesNotExist"
    /\ DOMAIN _dict # {}
    /\ res.id \notin DOMAIN _dict

\* SeriesList.get has raised for a catalog code that the store lacks, while
\* the cache holds a Series.
FailedGetWithCache ==
    /\ res.op = "SeriesList.get"
    /\ res.out.status # "ok"
    /\ "series" \in Queried(res.out)
    /\ DOMAIN _dict # {}

(***************************************************************************)
(* The reload of the store (cpi/download.py).  The store is a function of  *)
(* the names of the tables that exist; every statement of the Downloader   *)
(* is committed when it is executed, and is one step.                      *)
(***************************************************************************)
\* Downloader.FILE_LIST, with two of the data files
FILE_LIST ==
    <<"cu.area", "cu.item", "cu.period", "cu.periodicity", "cu.series",
      "cu.data.0.Current", "cu.data.1.AllItems">>

\* ParseIndex.FILE_LIST
ParseIndex_FILE_LIST == <<"cu.data.0.Current", "cu.data.1.AllItems">>

\* table_list of Downloader.rm: the normalized tables
table_list == <<"areas", "items", "periods", "periodicities", "series", "indexes">>

Range(seq) == {seq[n] : n \in 1..Len(seq)}

\* The releases of the BLS: the files that it publishes.  The data files
\* overlap: the first row of cu.data.0.Current is in cu.data.1.AllItems too.
Releases == {1, 2}
DataOf(id, base) ==
    [n \in 1..Len(IndexesOf(id, base, 1)) |->
        LET r == IndexesOf(id, base, 1)[n]
        IN DataRow(r.series, r.year, r.period, r.value)]
BlsFiles(release) ==
    [f \in Range(FILE_LIST) |->
        CASE f = "cu.area" ->
               [n \in 1..Len(Areas) |->
                   [area_code |-> Areas[n].code, area_name |-> Areas[n].name]]
          [] f = "cu.item" ->
               [n \in 1..Len(Items) |->
                   [item_code |-> Items[n].code, item_name |-> Items[n].name]]
          [] f = "cu.period" ->
               [n \in 1..Len(Periods) |->
                   [period |-> Periods[n].code,
                    period_abbr |-> Periods[n].abbreviation,
                    period_name |-> Periods[n].name]]
          [] f = "cu.periodicity" ->
               [n \in 1..Len(Periodicities) |->
                   [periodicity_code |-> Periodicities[n].code,
                    periodicity_name |-> Periodicities[n].name]]
          [] f = "cu.series" ->
               <<[series_id |-> DEFAULT_SERIES_ID, seasonal |-> <<"U">>,
                  periodicity_code |-> <<"R">>, area_code |-> <<"0", "0", "0", "0">>,
                  item_code |-> <<"S", "A", "0">>, series_title |-> "title"],
                 [series_id |-> SEASONAL_SERIES_ID, seasonal |-> <<"S">>,
                  periodicity_code |-> <<"R">>, area_code |-> <<"S", "4", "9", "A">>,
                  item_code |-> <<"S", "A", "0", "E">>, series_title |-> "title"]>>
          [] f = "cu.data.0.Current" -> DataOf(DEFAULT_SERIES_ID, release)
          [] f = "cu.data.1.AllItems" ->
               <<DataOf(DEFAULT_SERIES_ID, release)[1]>>
                   \o DataOf(SEASONAL_SERIES_ID, release + 3)]

\* The rows of the data files, one file after the other.
RECURSIVE Concat(_, _)
Concat(file, names) ==
    IF names = <<>> THEN <<>> ELSE file[Head(names)] \o Concat(file, Tail(names))

\* The parse of the parser of a table, given the raw tables (get_file).
parse(table, file) ==
    CASE table = "areas" ->
           [n \in 1..Len(file["cu.area"]) |->
               CatalogRow(file["cu.area"][n].area_code, file["cu.area"][n].area_name)]
      [] table = "items" ->
           [n \in 1..Len(file["cu.item"]) |->
               CatalogRow(file["cu.item"][n].item_code, file["cu.item"][n].item_name)]
      [] table = "periods" ->
           [n \in 1..Len(file["cu.period"]) |->
               PeriodRow(file["cu.period"][n].period, file["cu.period"][n].period_abbr,
                         file["cu.period"][n].period_name)]
      [] table = "periodicities" ->
           [n \in 1..Len(file["cu.periodicity"]) |->
               CatalogRow(file["cu.periodicity"][n].periodicity_code,
                          file["cu.periodicity"][n].periodicity_name)]
      [] table = "series" ->
           [n \in 1..Len(file["cu.series"]) |->
               LET row == file["cu.series"][n]
               IN SeriesRow(row.series_id, row.seasonal, row.periodicity_code,
                            row.area_code, row.item_code)]
      [] table = "indexes" -> ParseIndex_parse(Concat(file, ParseIndex_FILE_LIST))

\* BaseParser.get_df
get_df(table, file) == drop_duplicates(parse(table, file))

\* The complete set of the normalized tables of a release.
StoreOf(release) == [t \in Range(table_list) |-> get_df(t, BlsFiles(release))]

\* DROP TABLE [IF EXISTS] t
DropTable(d, t) == [x \in DOMAIN d \ {t} |-> d[x]]
\* df.to_sql(t, conn, if_exists="replace")
to_sql(d, t, df) == [x \in DOMAIN d \cup {t} |-> IF x = t THEN df ELSE d[x]]

\* The Downloader at the start of update() for a release.
Updating(release) ==
    [pc |-> "rm", n |-> 1, df_list |-> EmptyMap, release |-> release, next |-> ""]

\* The store holds the tables of a release; the BLS publishes a release.
InitReload ==
    /\ cpi_file = <<>>
    /\ cpi_by_year = EmptyDict
    /\ cpi_by_month = EmptyDict
    /\ LATEST_YEAR = PyNone
    /\ LATEST_MONTH = PyNone
    /\ today = PyNone
    /\ emitted = <<>>
    /\ db \in {StoreOf(release) : release \in Releases}
    /\ NoSeriesList
    /\ procs \in {Updating(release) : release \in Releases}
    /\ pc = "idle"
    /\ call = NoCall
    /\ prev = NoCall

\* A step of the Downloader: the store and the Downloader change.
Step(store, downloader) ==
    /\ db' = store
    /\ procs' = downloader
    /\ UNCHANGED <<Imported, _dict, series_list, heap, loads, res, pc, call, prev>>

\* The position after the n-th of a list of statements.
Then(n, list, after) ==
    IF n < Len(list) THEN [procs EXCEPT !.n = n + 1]
    ELSE [procs EXCEPT !.pc = after, !.n = 1]

\* Downloader.rm, with a cpi.db that exists: DROP TABLE IF EXISTS for every
\* normalized table, then vaccum.
Rm ==
    /\ procs.pc = "rm"
    /\ Step(DropTable(db, table_list[procs.n]),
            [Then(procs.n, table_list, "vaccum") EXCEPT !.next = "get_df"])

\* Downloader.vaccum
Vaccum ==
    /\ procs.pc = "vaccum"
    /\ Step(db, [procs EXCEPT !.pc = procs.next, !.next = ""])

\* Downloader.get_df, in load_file_list: the download of a file, which
\* fails when the response is not ok.
GetDf ==
    /\ procs.pc = "get_df"
    /\ \E ok \in BOOLEAN :
          IF ok
            THEN Step(db, [Then(procs.n, FILE_LIST, "load") EXCEPT
                              !.df_list = (FILE_LIST[procs.n] :>
                                             BlsFiles(procs.release)[FILE_LIST[procs.n]])
                                          @@ @])
            ELSE Step(db, [procs EXCEPT !.pc = "AssertionError"])

\* Downloader.load_file_list: the raw tables, one by one
LoadFileList ==
    /\ procs.pc = "load"
    /\ Step(to_sql(db, FILE_LIST[procs.n], procs.df_list[FILE_LIST[procs.n]]),
            Then(procs.n, FILE_LIST, "process"))

\* Downloader.process_files: the normalized tables, one by one
ProcessFiles ==
    /\ procs.pc = "process"
    /\ Step(to_sql(db, table_list[procs.n], get_df(table_list[procs.n], db)),
            Then(procs.n, table_list, "drop"))

\* Downloader.drop_file_list: DROP TABLE for every raw table, then vaccum.
DropFileList ==
    /\ procs.pc = "drop"
    /\ Step(DropTable(db, FILE_LIST[procs.n]),
            [Then(procs.n, FILE_LIST, "vaccum") EXCEPT !.next = "done"])

\* query("SELECT * FROM table") by a reader of the store, while the
\* Downloader runs.
SelectAll(table) ==
    IF table \in DOMAIN db THEN SOk(db[table], <<SqlAll(table)>>)
    ELSE SRaise("OperationalError", Msg("no such table: {}", table), <<SqlAll(table)>>)

Read ==
    /\ pc = "idle"
    /\ \E table \in Range(table_list) :
          res' = [NoRes EXCEPT !.op = "query", !.name = table, !.out = SelectAll(table)]
    /\ UNCHANGED <<_dict, series_list, heap, loads>>
    /\ Called

NextReload ==
    Rm \/ Vaccum \/ GetDf \/ LoadFileList \/ ProcessFiles \/ DropFileList
        \/ Read \/ Return

SpecReload == InitReload /\ [][NextReload]_vars

\* C24: the reload replaces the tables of the store atomically: at every
\* point of rm, load_file_list, process_files and drop_file_list, and when a
\* download fails part-way, the store holds the complete set of the six
\* normalized tables of the release it had or the complete set of the new
\* release, never a store with tables missing or partly rebuilt.
C24_ReloadIsAtomic ==
    \E release \in Releases :
        \A t \in Range(table_list) : t \in DOMAIN db /\ db[t] = StoreOf(release)[t]

\* What the code gives: an update that is done leaves exactly the normalized
\* tables of the new release; while rm and the downloads run, and after a
\* download that failed, the store has lost tables of the release it had.
ReloadEndsWithNewStore ==
    /\ procs.pc = "done" => db = StoreOf(procs.release)
    /\ procs.pc \in {"get_df", "load", "AssertionError"}
          => DOMAIN db \cap Range(table_list) = {}

\* A reader has found a table missing after a download that failed.
ReaderFindsNoTable ==
    /\ procs.pc = "AssertionError"
    /\ res.op = "query"
    /\ res.out.status = "OperationalError"

(***************************************************************************)
(* Two callers of SeriesList.get_by_id whose steps interleave: the look in *)
(* the cache, the load of the series, and the assignment to the cache with *)
(* the return.  The Series being built is local to its caller; the cache   *)
(* and the store are shared.                                               *)
(***************************************************************************)
Callers == {1, 2}

\* A caller that is not in a call.
NotCalling == [pc |-> "idle", value |-> <<>>, obj |-> 0, out |-> SRaise("none", NoMsg, <<>>)]

\* The callers that are in a call and may still load their series.
MayLoad == {c \in Callers : procs[c].pc \in {"try", "load"}}

InitCallers ==
    /\ cpi_file = <<>>
    /\ cpi_by_year = EmptyDict
    /\ cpi_by_month = EmptyDict
    /\ LATEST_YEAR = PyNone
    /\ LATEST_MONTH = PyNone
    /\ today = PyNone
    /\ emitted = <<>>
    /\ db \in Stores
    /\ NoSeriesList
    /\ procs = [c \in Callers |-> NotCalling]
    /\ pc = "idle"
    /\ call = NoCall
    /\ prev = NoCall

\* Mutant: the Series is not put in the cache.
NotCached(dict, value, ref) == dict

\* self._dict[value] = obj
Cached(dict, value, ref) == (value :> ref) @@ dict

\* What a step of a caller leaves as it is.
CallerStep == UNCHANGED <<Imported, db, series_list, res, pc, call, prev>>

\* A caller calls get_by_id(value).
CallGetById(c) ==
    /\ procs[c].pc = "idle"
    /\ Len(heap) + Cardinality(MayLoad) < MaxObjects
    /\ \E value \in SeriesIdArgs :
          procs' = [procs EXCEPT ![c] = [NotCalling EXCEPT !.pc = "try", !.value = value]]
    /\ UNCHANGED <<_dict, heap, loads>>
    /\ CallerStep

\* return self._dict[value], or KeyError and on to the load
TryCache(c) ==
    /\ procs[c].pc = "try"
    /\ procs' = [procs EXCEPT ![c] =
                    IF procs[c].value \in DOMAIN _dict
                      THEN [@ EXCEPT !.pc = "returned",
                                     !.out = SOk(_dict[procs[c].value], <<>>)]
                      ELSE [@ EXCEPT !.pc = "load"]]
    /\ UNCHANGED <<_dict, heap, loads>>
    /\ CallerStep

\* obj = Series.get_by_id(value)
LoadSeries(c) ==
    /\ procs[c].pc = "load"
    /\ LET obj == Series_get_by_id(procs[c].value)
       IN IF obj.status # "ok"
            THEN /\ procs' = [procs EXCEPT ![c] = [@ EXCEPT !.pc = "returned", !.out = obj]]
                 /\ UNCHANGED <<heap, loads>>
            ELSE /\ heap' = Append(heap, obj.val)
                 /\ loads' = Loaded(loads, procs[c].value)
                 /\ procs' = [procs EXCEPT ![c] =
                                 [@ EXCEPT !.pc = "cache", !.obj = Len(heap) + 1,
                                           !.out = SOk(Len(heap) + 1, obj.queries)]]
    /\ UNCHANGED _dict
    /\ CallerStep

\* self._dict[value] = obj; return obj
CacheAndReturn(c) ==
    /\ procs[c].pc = "cache"
    /\ _dict' = Cached(_dict, procs[c].value, procs[c].obj)
    /\ procs' = [procs EXCEPT ![c] = [@ EXCEPT !.pc = "returned"]]
    /\ UNCHANGED <<heap, loads>>
    /\ CallerStep

\* The caller goes on with what it received.
GoOn(c) ==
    /\ procs[c].pc = "returned"
    /\ procs' = [procs EXCEPT ![c] = NotCalling]
    /\ UNCHANGED <<_dict, heap, loads>>
    /\ CallerStep

NextCallers ==
    \E c \in Callers :
        CallGetById(c) \/ TryCache(c) \/ LoadSeries(c) \/ CacheAndReturn(c) \/ GoOn(c)

SpecCallers == InitCallers /\ [][NextCallers]_vars

\* A Series object that holds the series of the id as the store has it, with
\* an Index for every row of the series.
FullyPopulated(ref, id) ==
    /\ heap[ref].id = id
    /\ heap[ref].periodicity.id = query("series", "id", id)[1].periodicity
    /\ Len(heap[ref].indexes) = Len(query("indexes", "series", id))
    /\ \A n \in 1..Len(heap[ref].indexes) :
          /\ heap[ref].indexes[n].year = query("indexes", "series", id)[n].year
          /\ heap[ref].indexes[n].period.id = query("indexes", "series", id)[n].period
          /\ heap[ref].indexes[n].value = FromInt(query("indexes", "series", id)[n].value)

\* The callers that have received a Series.
Received == {c \in Callers : procs[c].pc = "returned" /\ procs[c].out.status = "ok"}

\* C25: two callers of SeriesList.get_by_id for a series id that is not
\* cached, with their steps interleaved, may load the series more than
\* once, and still every caller receives a fully populated Series, never
\* one with a part of its Indexes; the Series that the callers
\* receive for an id are structurally equal; and the cache holds for the id
\* exactly one Series, fully populated and equal to what was received.
C25_InterleavedLoadsAreSafe ==
    /\ \A c \in Received :
          /\ FullyPopulated(procs[c].out.val, procs[c].value)
          /\ procs[c].value \in DOMAIN _dict
          /\ heap[_dict[procs[c].value]] = heap[procs[c].out.val]
    /\ \A c, d \in Received :
          procs[c].value = procs[d].value
              => heap[procs[c].out.val] = heap[procs[d].out.val]
    /\ \A id \in DOMAIN _dict : FullyPopulated(_dict[id], id)

\* C25 witness: both callers have received a Series for the same id, each
\* the object of its own load, and the cache holds one of the two.
C25_Witness ==
    /\ Received = Callers
    /\ procs[1].value = procs[2].value
    /\ procs[1].out.val # procs[2].out.val
    /\ loads[procs[1].value] = 2
    /\ _dict[procs[1].value] \in {procs[1].out.val, procs[2].out.val}

=============================================================================
